---- MODULE Spec2Model ----
(***************************************************************************)
(* A model of the launch/attach orchestration of vscode-cordova:           *)
(*                                                                         *)
(*   - IonicDevServer.startIonicDevServer, the readiness detector that     *)
(*     classifies the streamed output of the Ionic live reload process     *)
(*     (src/src/extension/appcenter/appCenterStrings.ts);                  *)
(*   - the platform object that owns the detector: launchApp and dispose   *)
(*     (src/unnamed/part_001, src/unnamed/part_002);                       *)
(*   - CordovaDebugSession: launchRequest, attachRequest,                  *)
(*     disconnectRequest and cleanUp (src/unnamed/part_003).               *)
(*                                                                         *)
(* The output of the live reload process is a sequence of lines; a data    *)
(* event delivers a chunk, a non-empty sequence of lines, and the handlers *)
(* test their regular expressions against the accumulated lines.           *)
(***************************************************************************)
EXTENDS Integers, Sequences, FiniteSets, TLC

\* ------------------------------------------------------------------------
\* Bounds of the model
\* ------------------------------------------------------------------------

\* Lines the live reload processes write in one run, over both streams.
MaxOut == 3

\* Lines the process writes in a run over the lines of the app-ready
\* patterns, and in a run over the lines of the error patterns.
MaxAppOut == 3

MaxErrOut == 3

\* Calls of launchApp on one platform object.
MaxStarts == 2

\* Lines the processes write in a run that calls launchApp MaxStarts times.
MaxPlatOut == 2

\* ------------------------------------------------------------------------
\* Program constants
\* ------------------------------------------------------------------------

DefaultServerReadyTimeout == 60000

DefaultAppReadyTimeout == 120000

MaxPort == 65535

\* ------------------------------------------------------------------------
\* The lines of output the model draws from, and the regular expressions
\* of startIonicDevServer, each the set of lines it matches
\* ------------------------------------------------------------------------

UrlLine == "Local: http://localhost:8100"

LaunchLine == "launch success"

ErrLine == "error: build failed"

ErrLine2 == "Error: cannot deploy"

MultiLine == "Multiple network interfaces detected"

NoiseLine == "watch started"

Lines == {UrlLine, LaunchLine, ErrLine, ErrLine2, MultiLine, NoiseLine}

\* /(dev server running|Running dev server|Local):.*(http:\/\/.[^\s]*)/gmi
SERVER_URL_RE == {UrlLine}

\* group 2 of SERVER_URL_RE: the advertised URL
ServerUrlOf(line) == IF line = UrlLine THEN "http://localhost:8100" ELSE "none"

\* CordovaProjectHelper.getPortFromURL
getPortFromURL(url) == IF url = "http://localhost:8100" THEN 8100 ELSE 0

AddrErrLine == "Error: getaddrinfo ENOTFOUND devhost"

\* the debug line of @ionic/utils-network with the error it reports
NetChkErrLine == "utils-network error while checking localhost:8100: Error: listen EADDRINUSE"

\* errorRegex = /error:.*/i
errorRegex == {ErrLine, ErrLine2, AddrErrLine, NetChkErrLine}

\* errorMsg.indexOf("getaddrinfo ENOTFOUND") !== -1 ||
\* errorMsg.indexOf("listen EADDRNOTAVAIL") !== -1
IsAddressError(errorMsg) == errorMsg = AddrErrLine

\* /Multiple network interfaces detected/
MultipleInterfacesRe == {MultiLine}

\* /launch success|run successful/i
appReadyRegex == {LaunchLine}

BuildLine == "** BUILD SUCCEEDED **"

BundleLine == "created bundle at path /tmp/app.ipa"

LldbRunLine == "(lldb)     run"

SuccessLine == "success"

\* /build succeeded/i
iosSimulatorAppReadyRegex == {BuildLine}

\* /created bundle at path|\(lldb\)\W+run\r?\nsuccess/i: a line with the
\* first alternative, or the lldb run line with a line that starts with
\* "success" right after it
iosDeviceAppReadyRegex(s) ==
    \/ \E i \in 1 .. Len(s) : s[i] = BundleLine
    \/ \E i \in 1 .. Len(s) - 1 : s[i] = LldbRunLine /\ s[i + 1] = SuccessLine

NetChkLine == "utils-network error while checking localhost:8100"

AddrLine1 == "1) 10.0.0.1"

AddrLine2 == "2) 172.16.0.1"

\* /utils-network error while checking/
skipErrorRe == {NetChkLine, NetChkErrLine}

\* /(\d+\) .*)/gm, the numbered address lines of the interface prompt
addressRegex == {AddrLine1, AddrLine2}

\* The project's tool versions, the command lines and the launch arguments
\* the model draws from.  cliArgs is represented by the command it stands
\* for: "serve" is cliArgs[0] = "serve", "android" is ["run", "android", ...].
CliArgsSet == {"serve", "android"}

\* the command lines the platforms build, and the words of each:
\* ["serve", ...], ["run", "android", ...], ["run", "ios", "--device", ...],
\* ["emulate", "ios", ...], ["run", "ios", ...] from run arguments that name
\* no target and ["emulate", "ios", ..., "--device"] from run arguments of a
\* simulator launch that name a device
AllCliArgs == {"serve", "android", "iosDevice", "iosEmulate", "iosRun",
               "iosEmulateDevice"}

ArgsOf(cliArgs) ==
    IF cliArgs = "serve" THEN {"serve", "--livereload"}
    ELSE IF cliArgs = "android" THEN {"run", "android", "--livereload"}
    ELSE IF cliArgs = "iosDevice" THEN {"run", "ios", "--device", "--livereload"}
    ELSE IF cliArgs = "iosEmulate" THEN {"emulate", "ios", "--livereload"}
    ELSE IF cliArgs = "iosRun" THEN {"run", "ios", "--livereload"}
    ELSE {"emulate", "ios", "--livereload", "--device"}

\* isServe = cliArgs[0] === "serve"
isServe(cliArgs) == cliArgs = "serve"

NoPort == -1

DevServerPorts == {NoPort, 8100, 70000}

DevServerTimeouts == {0}

Procs == 1 .. MaxStarts

\* ------------------------------------------------------------------------
\* State
\* ------------------------------------------------------------------------
VARIABLES
    det,                    \* per call of startIonicDevServer: its closure
    proc,                   \* per call: the state of the spawned process
    nCalls,                 \* calls of startIonicDevServer so far
    ionicDevServer,         \* GeneralCordovaPlatform.ionicDevServer is set
    ionicLivereloadProcess, \* IonicDevServer.ionicLivereloadProcess (0: none)
    disposed,               \* GeneralCordovaPlatform.dispose has run
    outLeft,                \* lines the processes may still write
    callsLeft               \* calls of launchApp still to come

devVars == <<det, proc, nCalls, ionicDevServer, ionicLivereloadProcess,
             disposed, outLeft, callsLeft>>

\* ------------------------------------------------------------------------
\* Helpers on sequences of lines
\* ------------------------------------------------------------------------

RECURSIVE FirstMatch(_, _, _)
\* index of the first line of s at or after i that is in the set m, 0 if none
FirstMatch(s, m, i) ==
    IF i > Len(s) THEN 0
    ELSE IF s[i] \in m THEN i
    ELSE FirstMatch(s, m, i + 1)

\* RegExp.test / RegExp.exec on the accumulated output; a regular
\* expression is the set of lines it matches
Test(re, s) == FirstMatch(s, re, 1) # 0

\* the matched line, "null" when there is no match
Exec(re, s) ==
    LET i == FirstMatch(s, re, 1) IN
    IF i = 0 THEN "null" ELSE s[i]

\* ------------------------------------------------------------------------
\* The promise serverStarting
\* ------------------------------------------------------------------------

PendingPromise == [state |-> "pending", kind |-> "none", detail |-> <<>>, ms |-> 0]

\* _resolve(serverUrls): settles a pending promise only
Resolve(d, serverUrls) ==
    IF d.promise.state = "pending"
    THEN [d EXCEPT !.promise = [state |-> "resolved", kind |-> "urls",
                                detail |-> serverUrls, ms |-> 0]]
    ELSE d

\* reject(reason): settles a pending promise only
Reject(d, kind, detail, ms) ==
    IF d.promise.state = "pending"
    THEN [d EXCEPT !.promise = [state |-> "rejected", kind |-> kind,
                                detail |-> detail, ms |-> ms]]
    ELSE d

\* clearTimeout(rejectTimeout): disarms the timer the variable holds
clearTimeout(d) ==
    LET h == d.rejectTimeout IN
    [d EXCEPT !.timer[h] = IF @ = "armed" THEN "cleared" ELSE @,
              !.clears[h] = @ + 1]

\* ------------------------------------------------------------------------
\* startIonicDevServer: the closure of one call
\* ------------------------------------------------------------------------

\* serverReadyTimeout = launchArgs.devServerTimeout || 60000
serverReadyTimeout(d) ==
    IF d.devServerTimeout # 0 THEN d.devServerTimeout ELSE DefaultServerReadyTimeout

\* appReadyTimeout with the default of the server-ready phase
appReadyTimeout_ServerDefault(d) ==
    IF d.devServerTimeout # 0 THEN d.devServerTimeout ELSE DefaultServerReadyTimeout

\* appReadyTimeout = launchArgs.devServerTimeout || 120000
appReadyTimeout(d) ==
    IF d.devServerTimeout # 0 THEN d.devServerTimeout ELSE DefaultAppReadyTimeout

\* the closure as startIonicDevServer leaves it when it returns the promise:
\* the server-ready timer armed, nothing read yet
NewClosure(cliArgs, isIonic4, port, timeout) ==
    [cliArgs |-> cliArgs, isIonic4 |-> isIonic4,
     devServerPort |-> port, devServerTimeout |-> timeout,
     serverOut |-> <<>>, serverErr |-> <<>>,
     serverReady |-> FALSE, appReady |-> FALSE,
     promise |-> PendingPromise,
     rejectTimeout |-> "server",
     timer |-> [server |-> "armed", app |-> "unset"],
     clears |-> [server |-> 0, app |-> 0],
     deployLogs |-> 0, portWrites |-> 0]

\* the closure of a call that returned Promise.reject before spawning
RejectedClosure(cliArgs, isIonic4, port, timeout) ==
    [NewClosure(cliArgs, isIonic4, port, timeout) EXCEPT
        !.promise = [state |-> "rejected", kind |-> "port", detail |-> <<>>, ms |-> 0],
        !.timer = [server |-> "unset", app |-> "unset"]]

\* getServerErrorMessage without the test of the Ionic 4 port-search line
getServerErrorMessage_NoSkip(d, channel) ==
    IF Test(errorRegex, channel) THEN Exec(errorRegex, channel)
    ELSE "null"

\* let getServerErrorMessage = (channel) => ...; "null" is null, otherwise
\* the matched text errorMatch[0]
getServerErrorMessage(d, channel) ==
    IF d.isIonic4 /\ Test(skipErrorRe, channel) THEN "null"
    ELSE IF Test(errorRegex, channel) THEN Exec(errorRegex, channel)
    ELSE "null"

\* getRegexToResolveAppDefer returning appReadyRegex for every command line
getRegexToResolveAppDefer_Generic(cliArgs, s) == Test(appReadyRegex, s)

\* let getRegexToResolveAppDefer = (cliArgs) => ...; applied to the output
getRegexToResolveAppDefer(cliArgs, s) ==
    LET isIosDevice == "ios" \in ArgsOf(cliArgs) /\ "--device" \in ArgsOf(cliArgs)
        isIosSimulator == "ios" \in ArgsOf(cliArgs) /\ "emulate" \in ArgsOf(cliArgs)
    IN IF isIosDevice THEN iosDeviceAppReadyRegex(s)
       ELSE IF isIosSimulator THEN Test(iosSimulatorAppReadyRegex, s)
       ELSE Test(appReadyRegex, s)

\* resolveIfPossible without `ionicLivereloadProcessStatus.serverReady = true`
resolveIfPossible_FlagNotSet(d, ready, serverUrls) ==
    IF ready = "ServerReady" /\ ~d.serverReady
    THEN [clearTimeout(d) EXCEPT !.deployLogs = @ + 1,
                                 !.rejectTimeout = "app",
                                 !.timer.app = "armed"]
    ELSE IF ready = "AppReady" /\ d.serverReady
    THEN Resolve([clearTimeout(d) EXCEPT !.appReady = TRUE], serverUrls)
    ELSE d

\* resolveIfPossible without the clearTimeout on entry to ServerReady
resolveIfPossible_NoClear(d, ready, serverUrls) ==
    IF ready = "ServerReady" /\ ~d.serverReady
    THEN [d EXCEPT !.serverReady = TRUE,
                   !.deployLogs = @ + 1,
                   !.rejectTimeout = "app",
                   !.timer.app = "armed"]
    ELSE IF ready = "AppReady" /\ d.serverReady
    THEN Resolve([clearTimeout(d) EXCEPT !.appReady = TRUE], serverUrls)
    ELSE d

\* let resolveIfPossible = (ready, serverUrls) => ...
resolveIfPossible(d, ready, serverUrls) ==
    IF ready = "ServerReady" /\ ~d.serverReady
    THEN [clearTimeout(d) EXCEPT !.serverReady = TRUE,
                                 !.deployLogs = @ + 1,
                                 !.rejectTimeout = "app",
                                 !.timer.app = "armed"]
    ELSE IF ready = "AppReady" /\ d.serverReady
    THEN Resolve([clearTimeout(d) EXCEPT !.appReady = TRUE], serverUrls)
    ELSE d

\* the rejectTimeout callbacks
TimerFired(d, h) ==
    Reject([d EXCEPT !.timer[h] = "fired"], "timeout", <<h>>,
           IF h = "server" THEN serverReadyTimeout(d) ELSE appReadyTimeout(d))

\* the first part of serverOutputHandler: append, then the server-ready test
OutServerReady(d, data) ==
    LET d1 == [d EXCEPT !.serverOut = @ \o data] IN
    IF ~d1.serverReady /\ Test(SERVER_URL_RE, d1.serverOut)
    THEN resolveIfPossible(d1, "ServerReady", <<>>)
    ELSE d1

\* the app-ready test without `isServe ||`
OutAppReady_PatternOnly(d) ==
    IF d.serverReady /\ ~d.appReady
       /\ getRegexToResolveAppDefer(d.cliArgs, d.serverOut)
    THEN LET serverUrls == <<ServerUrlOf(Exec(SERVER_URL_RE, d.serverOut))>> IN
         resolveIfPossible([d EXCEPT !.devServerPort = getPortFromURL(serverUrls[1]),
                                     !.portWrites = @ + 1],
                           "AppReady", serverUrls)
    ELSE d

\* the second part: the app-ready test
OutAppReady(d) ==
    IF d.serverReady /\ ~d.appReady
       /\ (isServe(d.cliArgs) \/ getRegexToResolveAppDefer(d.cliArgs, d.serverOut))
    THEN LET serverUrls == <<ServerUrlOf(Exec(SERVER_URL_RE, d.serverOut))>> IN
         resolveIfPossible([d EXCEPT !.devServerPort = getPortFromURL(serverUrls[1]),
                                     !.portWrites = @ + 1],
                           "AppReady", serverUrls)
    ELSE d

\* the third part: the multiple-network-interfaces error
OutMultiple(d) ==
    IF Test(MultipleInterfacesRe, d.serverOut)
    THEN Reject(d, "multi", SelectSeq(d.serverOut, LAMBDA l : l \in addressRegex), 0)
    ELSE d

\* the last part: the error line
OutError(d) ==
    LET errorMsg == getServerErrorMessage(d, d.serverOut) IN
    IF errorMsg # "null" THEN Reject(d, "tool", <<errorMsg>>, 0) ELSE d

\* let serverOutputHandler = (data) => ...
serverOutputHandler(d, data) ==
    OutError(OutMultiple(OutAppReady(OutServerReady(d, data))))

\* let serverErrorOutputHandler = (data) => ...
serverErrorOutputHandler(d, data) ==
    LET d1 == [d EXCEPT !.serverErr = @ \o data]
        errorMsg == getServerErrorMessage(d1, d1.serverErr)
    IN IF errorMsg # "null" THEN Reject(d1, "tool", <<errorMsg>>, 0) ELSE d1

\* this.ionicLivereloadProcess.stderr.on("data", ...)
stderrHandler(d, data) ==
    IF d.isIonic4
    THEN serverErrorOutputHandler(serverOutputHandler(d, data), data)
    ELSE serverErrorOutputHandler(d, data)

\* this.ionicLivereloadProcess.on("exit", ...): the closure's part
exitHandler(d) ==
    LET errorMsg == getServerErrorMessage(d, d.serverErr) IN
    Reject(d, "exit",
           IF errorMsg = "null" THEN <<>>
           ELSE IF IsAddressError(errorMsg) THEN <<"InvalidAddress">>
           ELSE <<errorMsg>>,
           0)

\* the "error" handler without the test of err.code
errorHandler_NoCode(d, code) == Reject(d, "spawn", <<code>>, 0)

\* this.ionicLivereloadProcess.on("error", ...)
errorHandler(d, code) ==
    IF code = "ENOENT"
    THEN Reject(d, "IonicNotFound", <<>>, 0)
    ELSE Reject(d, "spawn", <<code>>, 0)

\* ------------------------------------------------------------------------
\* The platform object and the events of the live reload process
\* ------------------------------------------------------------------------

\* a chunk of a data event: one to n lines of the set lines
ChunksOf(lines, n) ==
    UNION {[1 .. k -> lines] : k \in 1 .. n}

Chunks(n) == ChunksOf(Lines, n)

\* the devServerPort check at the head of startIonicDevServer
PortRejected(runArguments, port) ==
    /\ ~runArguments
    /\ port # NoPort
    /\ ~(port >= 0 /\ port <= MaxPort)

\* launchApp, the live reload branch: create the IonicDevServer if there is
\* none, then startIonicDevServer(launchArgs, args).  spawned is whether the
\* executable could be started.
launchApp(cliArgs, isIonic4, runArguments, port, timeout, spawned) ==
    /\ callsLeft > 0
    /\ ~disposed
    /\ callsLeft' = callsLeft - 1
    /\ nCalls' = nCalls + 1
    /\ ionicDevServer' = TRUE
    /\ IF PortRejected(runArguments, port)
       THEN /\ det' = [det EXCEPT ![nCalls + 1] =
                          RejectedClosure(cliArgs, isIonic4, port, timeout)]
            /\ UNCHANGED <<proc, ionicLivereloadProcess>>
       ELSE /\ det' = [det EXCEPT ![nCalls + 1] =
                          NewClosure(cliArgs, isIonic4, port, timeout)]
            /\ proc' = [proc EXCEPT ![nCalls + 1] =
                          IF spawned THEN "running" ELSE "failing"]
            /\ ionicLivereloadProcess' = nCalls + 1
    /\ UNCHANGED <<disposed, outLeft>>

\* GeneralCordovaPlatform.dispose
dispose ==
    /\ ~disposed
    /\ disposed' = TRUE
    /\ UNCHANGED <<det, proc, nCalls, ionicDevServer, ionicLivereloadProcess,
                   outLeft, callsLeft>>

\* a data event on stdout
StdoutData(p, data) ==
    /\ proc[p] \in {"running", "exited"}
    /\ Len(data) <= outLeft
    /\ outLeft' = outLeft - Len(data)
    /\ det' = [det EXCEPT ![p] = serverOutputHandler(@, data)]
    /\ UNCHANGED <<proc, nCalls, ionicDevServer, ionicLivereloadProcess,
                   disposed, callsLeft>>

\* a data event on stderr
StderrData(p, data) ==
    /\ proc[p] \in {"running", "exited"}
    /\ Len(data) <= outLeft
    /\ outLeft' = outLeft - Len(data)
    /\ det' = [det EXCEPT ![p] = stderrHandler(@, data)]
    /\ UNCHANGED <<proc, nCalls, ionicDevServer, ionicLivereloadProcess,
                   disposed, callsLeft>>

\* a timer set by setTimeout fires
TimerFire(p, h) ==
    /\ proc[p] # "none"
    /\ det[p].timer[h] = "armed"
    /\ det' = [det EXCEPT ![p] = TimerFired(@, h)]
    /\ UNCHANGED <<proc, nCalls, ionicDevServer, ionicLivereloadProcess,
                   disposed, outLeft, callsLeft>>

\* the "exit" event of the process
Exit(p) ==
    /\ proc[p] = "running"
    /\ proc' = [proc EXCEPT ![p] = "exited"]
    /\ ionicLivereloadProcess' = 0
    /\ det' = [det EXCEPT ![p] = exitHandler(@)]
    /\ UNCHANGED <<nCalls, ionicDevServer, disposed, outLeft, callsLeft>>

\* the "error" event of a process that could not be started
ErrorEvent(p, code) ==
    /\ proc[p] = "failing"
    /\ proc' = [proc EXCEPT ![p] = "failed"]
    /\ det' = [det EXCEPT ![p] = errorHandler(@, code)]
    /\ UNCHANGED <<nCalls, ionicDevServer, ionicLivereloadProcess, disposed,
                   outLeft, callsLeft>>

NoClosure == RejectedClosure("serve", FALSE, NoPort, 0)

\* no call made yet; the environment will make `calls` calls and write
\* `out` lines
DevInit(calls, out) ==
    /\ det = [p \in Procs |-> NoClosure]
    /\ proc = [p \in Procs |-> "none"]
    /\ nCalls = 0
    /\ ionicDevServer = FALSE
    /\ ionicLivereloadProcess = 0
    /\ disposed = FALSE
    /\ outLeft = out
    /\ callsLeft = calls

\* the events of the live reload processes, the output over the set lines
DevEventsOver(lines, n) ==
    \/ dispose
    \/ \E p \in Procs, data \in ChunksOf(lines, n) : StdoutData(p, data)
    \/ \E p \in Procs, data \in ChunksOf(lines, n) : StderrData(p, data)
    \/ \E p \in Procs, h \in {"server", "app"} : TimerFire(p, h)
    \/ \E p \in Procs : Exit(p)
    \/ \E p \in Procs, code \in {"ENOENT", "EACCES"} : ErrorEvent(p, code)

DevEvents == DevEventsOver(Lines, MaxOut)

\* one call of startIonicDevServer, with every input
DevNext ==
    \/ \E cliArgs \in CliArgsSet, isIonic4 \in BOOLEAN, runArguments \in BOOLEAN,
          port \in DevServerPorts, timeout \in DevServerTimeouts, spawned \in BOOLEAN :
          launchApp(cliArgs, isIonic4, runArguments, port, timeout, spawned)
    \/ DevEvents

\* the lines of the app-ready patterns
AppLines == {UrlLine, LaunchLine, BuildLine, BundleLine, LldbRunLine, SuccessLine}

\* a devServerTimeout of launch.json
SetTimeoutMs == 5000

\* one call of startIonicDevServer for each command line, with and without
\* a devServerTimeout, the output over AppLines
AppNext ==
    \/ \E cliArgs \in AllCliArgs, timeout \in {0, SetTimeoutMs}, spawned \in BOOLEAN :
          launchApp(cliArgs, FALSE, FALSE, NoPort, timeout, spawned)
    \/ DevEventsOver(AppLines, MaxAppOut)

\* the lines of the error patterns
ErrLines == {UrlLine, ErrLine, AddrErrLine, NetChkLine, NetChkErrLine,
             MultiLine, AddrLine1, AddrLine2}

\* one call of startIonicDevServer for android with either tool version,
\* the output over ErrLines
ErrNext ==
    \/ \E isIonic4 \in BOOLEAN, spawned \in BOOLEAN :
          launchApp("android", isIonic4, FALSE, NoPort, 0, spawned)
    \/ DevEventsOver(ErrLines, MaxErrOut)

\* repeated calls of AndroidCordovaPlatform.launchApp on one platform object
\* of a project with an Ionic CLI below 4.0.0
PlatNext ==
    \/ \E port \in {NoPort, 70000}, spawned \in BOOLEAN :
          launchApp("android", FALSE, FALSE, port, 0, spawned)
    \/ DevEvents

\* ------------------------------------------------------------------------
\* CordovaDebugSession
\*
\* ses is the session object together with the position of each request
\* handler.  A handler runs from one await to the next in one step; the
\* position names the await it is suspended at.
\* ------------------------------------------------------------------------
VARIABLES ses

Reqs == {"launch", "attach", "disconnect"}

\* an error thrown at an await: its name.  A cancellation error can only
\* come from an operation that watches the session's cancellation token.
ErrorNames(s) ==
    IF s.cancelled THEN {"Error", "tokenCanceled"} ELSE {"Error"}

NewSession(client) ==
    [client |-> client,
     pc |-> [r \in Reqs |-> "idle"],
     err |-> [r \in Reqs |-> "none"],
     resp |-> [r \in Reqs |-> "none"],
     errLogged |-> [r \in Reqs |-> FALSE],
     platform |-> 0,
     nPlatforms |-> 0,
     stopCalls |-> 0,
     cordovaCdpProxy |-> FALSE,
     proxyState |-> "none",
     stopServerCalls |-> 0,
     cancelled |-> FALSE,
     terminateCalls |-> 0,
     loggerDisposes |-> 0,
     status |-> "NotActivated",
     cleanUpsStarted |-> 0,
     cleanUpsDone |-> 0,
     assignedSinceCleanUp |-> FALSE]

\* the rejection of a handler's promise: nothing more runs in it
crash(s, r) == [s EXCEPT !.pc[r] = "crashed"]

\* what follows `await this.cleanUp()` in the caller: showError in
\* launchRequest and attachRequest, super.disconnectRequest in
\* disconnectRequest
showError(s, r) ==
    IF s.err[r] = "tokenCanceled"
    THEN [s EXCEPT !.pc[r] = "done"]
    ELSE [s EXCEPT !.pc[r] = "done", !.resp[r] = "error"]

afterCleanUp(s, r) ==
    IF r = "disconnect"
    THEN [s EXCEPT !.pc[r] = "done", !.resp[r] = "ok"]
    ELSE showError(s, r)

\* cleanUp from `this.cancellationTokenSource.cancel()` to
\* `await logger.dispose()`
cleanUpTerminate(s, r) ==
    [s EXCEPT !.cancelled = TRUE,
              !.terminateCalls = @ + 1,
              !.loggerDisposes = @ + 1,
              !.pc[r] = "cu_logger"]

\* cleanUp from `if (this.cordovaCdpProxy)` on
cleanUpProxy(s, r) ==
    IF s.cordovaCdpProxy
    THEN [s EXCEPT !.stopServerCalls = @ + 1,
                   !.proxyState = "stopped",
                   !.pc[r] = "cu_stopServer"]
    ELSE cleanUpTerminate(s, r)

\* cleanUp from its first line to its first await; assignedSinceCleanUp
\* records whether this.platform or this.cordovaCdpProxy was assigned since
\* the latest call of cleanUp
cleanUp(s, r) ==
    LET s1 == [s EXCEPT !.cleanUpsStarted = @ + 1,
                        !.assignedSinceCleanUp = FALSE] IN
    IF s1.platform # 0
    THEN [s1 EXCEPT !.stopCalls = @ + 1, !.pc[r] = "cu_stopAndCleanUp"]
    ELSE cleanUpProxy(s1, r)

\* the catch block of launchRequest and attachRequest
catch(s, r, name) ==
    cleanUp([s EXCEPT !.err[r] = name, !.errLogged[r] = TRUE], r)

\* cleanUpResume without `this.platform = null`
cleanUpResume_PlatformKept(s, r, ok) ==
    IF ~ok THEN crash(s, r)
    ELSE IF s.pc[r] = "cu_stopAndCleanUp"
    THEN cleanUpProxy(s, r)
    ELSE IF s.pc[r] = "cu_stopServer"
    THEN cleanUpTerminate([s EXCEPT !.cordovaCdpProxy = FALSE], r)
    ELSE afterCleanUp([s EXCEPT !.cleanUpsDone = @ + 1], r)

\* a step of cleanUp resumes; ok is whether the awaited call succeeded
cleanUpResume(s, r, ok) ==
    IF ~ok THEN crash(s, r)
    ELSE IF s.pc[r] = "cu_stopAndCleanUp"
    THEN cleanUpProxy([s EXCEPT !.platform = 0], r)
    ELSE IF s.pc[r] = "cu_stopServer"
    THEN cleanUpTerminate([s EXCEPT !.cordovaCdpProxy = FALSE], r)
    ELSE afterCleanUp([s EXCEPT !.cleanUpsDone = @ + 1], r)

\* attachRequest from `this.platform.getPlatformOpts()` to
\* `await this.cordovaCdpProxy.createServer(...)`
attachBody(s) ==
    IF s.platform = 0
    THEN catch(s, "attach", "Error")
    ELSE [s EXCEPT !.cordovaCdpProxy = TRUE,
                   !.assignedSinceCleanUp = TRUE,
                   !.proxyState = "creating",
                   !.pc["attach"] = "a_createServer"]

\* attachRequest from the mobile-target test on
attachTarget(s, mobile) ==
    IF s.platform # 0 /\ mobile
    THEN [s EXCEPT !.pc["attach"] = "a_target"]
    ELSE attachBody(s)

\* attachRequest resumes at the await it is suspended at
attachResume(s, ok, name, mobile) ==
    LET at == s.pc["attach"] IN
    IF at = "a_createServer" /\ ~ok
    THEN catch([s EXCEPT !.proxyState = IF @ = "creating" THEN "failed" ELSE @],
               "attach", name)
    ELSE IF ~ok THEN catch(s, "attach", name)
    ELSE IF at = "a_init"
    THEN IF s.platform = 0
         THEN [s EXCEPT !.pc["attach"] = "a_resolvePlatform"]
         ELSE attachTarget(s, mobile)
    ELSE IF at = "a_resolvePlatform"
    THEN attachTarget([s EXCEPT !.platform = s.nPlatforms + 1,
                                !.nPlatforms = @ + 1,
                                !.assignedSinceCleanUp = TRUE], mobile)
    ELSE IF at = "a_target"
    THEN attachBody(s)
    ELSE IF at = "a_createServer"
    THEN LET s1 == [s EXCEPT !.proxyState = IF @ = "creating" THEN "running" ELSE @] IN
         IF s1.platform = 0
         THEN catch(s1, "attach", "Error")
         ELSE [s1 EXCEPT !.pc["attach"] = "a_prepareForAttach"]
    ELSE IF at = "a_prepareForAttach"
    THEN IF ~s.cordovaCdpProxy
         THEN catch(s, "attach", "Error")
         ELSE [s EXCEPT !.pc["attach"] = "a_startDebugging"]
    ELSE \* a_startDebugging
         [s EXCEPT !.pc["attach"] = "done",
                   !.resp["attach"] = "ok",
                   !.status = "Activated"]

\* launchRequest from `this.platform.getPlatformOpts()` to
\* `await this.platform.launchApp()`
launchBody(s) ==
    IF s.platform = 0
    THEN catch(s, "launch", "Error")
    ELSE [s EXCEPT !.pc["launch"] = "l_launchApp"]

\* launchRequest resumes at the await it is suspended at
launchResume(s, ok, name, mobile) ==
    LET at == s.pc["launch"] IN
    IF ~ok THEN catch(s, "launch", name)
    ELSE IF at = "l_init"
    THEN [s EXCEPT !.pc["launch"] = "l_resolvePlatform"]
    ELSE IF at = "l_resolvePlatform"
    THEN LET s1 == [s EXCEPT !.platform = s.nPlatforms + 1,
                             !.nPlatforms = @ + 1,
                             !.assignedSinceCleanUp = TRUE] IN
         IF mobile THEN [s1 EXCEPT !.pc["launch"] = "l_target"] ELSE launchBody(s1)
    ELSE IF at = "l_target"
    THEN launchBody(s)
    ELSE \* l_launchApp: customRequest("attach", launchArgs)
         [s EXCEPT !.pc["launch"] = "l_attach", !.pc["attach"] = "requested"]

\* `await this.vsCodeDebugSession.customRequest("attach", ...)` settles with
\* the response of attachRequest
launchAttached(s) ==
    IF s.resp["attach"] = "ok"
    THEN [s EXCEPT !.pc["launch"] = "done",
                   !.resp["launch"] = "ok",
                   !.status = "Activated"]
    ELSE catch(s, "launch", "Error")

\* ---- the actions of the session ----

AwaitsOf(r) ==
    IF r = "launch" THEN {"l_init", "l_resolvePlatform", "l_target", "l_launchApp"}
    ELSE IF r = "attach"
    THEN {"a_init", "a_resolvePlatform", "a_target", "a_createServer",
          "a_prepareForAttach", "a_startDebugging"}
    ELSE {}

CleanUpAwaits == {"cu_stopAndCleanUp", "cu_stopServer", "cu_logger"}

\* the client's launch request arrives
launchRequest(cwd) ==
    /\ ses.client = "launch"
    /\ ses.pc["launch"] = "idle"
    /\ ses' = IF cwd
              THEN [ses EXCEPT !.pc["launch"] = "l_init"]
              ELSE catch(ses, "launch", "Error")

\* the attach request arrives: the client's, or the one launchRequest sent
attachRequest ==
    /\ \/ ses.client = "attach" /\ ses.pc["attach"] = "idle"
       \/ ses.pc["attach"] = "requested"
    /\ ses' = [ses EXCEPT !.pc["attach"] = "a_init"]

\* the disconnect request arrives
disconnectRequest ==
    /\ ses.pc[ses.client] # "idle"
    /\ ses.pc["disconnect"] = "idle"
    /\ ses' = cleanUp(ses, "disconnect")

LaunchStep(ok, name, mobile) ==
    /\ ses.pc["launch"] \in AwaitsOf("launch")
    /\ ses' = launchResume(ses, ok, name, mobile)

LaunchAttached ==
    /\ ses.pc["launch"] = "l_attach"
    /\ ses.resp["attach"] # "none"
    /\ ses' = launchAttached(ses)

AttachStep(ok, name, mobile) ==
    /\ ses.pc["attach"] \in AwaitsOf("attach")
    /\ ses' = attachResume(ses, ok, name, mobile)

CleanUpStep(r, ok) ==
    /\ ses.pc[r] \in CleanUpAwaits
    /\ ses' = cleanUpResume(ses, r, ok)

SesInit == ses \in {NewSession(c) : c \in {"launch", "attach"}}

SesNext ==
    \/ \E cwd \in BOOLEAN : launchRequest(cwd)
    \/ attachRequest
    \/ disconnectRequest
    \/ \E ok \in BOOLEAN, name \in ErrorNames(ses), mobile \in BOOLEAN :
          LaunchStep(ok, name, mobile)
    \/ LaunchAttached
    \/ \E ok \in BOOLEAN, name \in ErrorNames(ses), mobile \in BOOLEAN :
          AttachStep(ok, name, mobile)
    \/ \E r \in Reqs, ok \in BOOLEAN : CleanUpStep(r, ok)

\* ------------------------------------------------------------------------
\* Platform resolution
\* ------------------------------------------------------------------------

\* the call of a function of the extension: its name, arguments and result
VARIABLES call

NoCall == [fn |-> "none"]

\* the values of enum PlatformType
PlatformTypes ==
    {"android", "ios", "windows", "serve", "amazon_fireos", "blackberry10",
     "firefoxos", "ubuntu", "wp8", "browser"}

\* args.platform: a PlatformType, another name, or no name
PlatformNames == PlatformTypes \cup {"tizen", "undefined"}

\* the browsers cordova-simulate is launched in
SimulateTargets == {"chrome", "edge"}

\* args.target
TargetNames == SimulateTargets \cup {"emulator", "device", "undefined"}

isSimulateTarget(target) == target \in SimulateTargets

Resolved(platform) == [platform |-> platform, error |-> "null"]

Thrown(error) == [platform |-> "null", error |-> error]

\* CordovaDebugSession.resolvePlatform: the simulate test, then the name
resolvePlatform(platform, target) ==
    IF isSimulateTarget(target)
    THEN Resolved("BrowserPlatform")
    ELSE CASE platform = "android" -> Resolved("AndroidPlatform")
           [] platform = "ios" -> Resolved("IosPlatform")
           [] platform \in PlatformTypes \ {"android", "ios"} ->
                  Resolved("BrowserPlatform")
           [] OTHER -> Thrown("Unknown Platform")

\* CordovaPlatformResolver.resolveCordovaPlatform: the name, then the
\* simulate test inside the cases android, ios and windows
resolveCordovaPlatform(platformString, targetString) ==
    CASE platformString = "android" ->
             IF isSimulateTarget(targetString)
             THEN Resolved("BrowserCordovaPlatform")
             ELSE Resolved("AndroidCordovaPlatform")
      [] platformString = "ios" ->
             IF isSimulateTarget(targetString)
             THEN Resolved("BrowserCordovaPlatform")
             ELSE Resolved("IOSCordovaPlatform")
      [] platformString = "windows" ->
             IF isSimulateTarget(targetString)
             THEN Resolved("BrowserCordovaPlatform")
             ELSE Thrown("Debugging platform is not supported")
      [] platformString \in PlatformTypes \ {"android", "ios", "windows"} ->
             Resolved("BrowserCordovaPlatform")
      [] OTHER -> Thrown("Unknown Platform")

ResolvePlatform(platform, target) ==
    /\ call = NoCall
    /\ call' = [fn |-> "resolvePlatform", platform |-> platform,
                target |-> target, out |-> resolvePlatform(platform, target)]

ResolveCordovaPlatform(platform, target) ==
    /\ call = NoCall
    /\ call' = [fn |-> "resolveCordovaPlatform", platform |-> platform,
                target |-> target,
                out |-> resolveCordovaPlatform(platform, target)]

ResolveNext ==
    \/ \E p \in PlatformNames, t \in TargetNames : ResolvePlatform(p, t)
    \/ \E p \in PlatformNames, t \in TargetNames :
          ResolveCordovaPlatform(p, t)

\* ------------------------------------------------------------------------
\* Target selection (MobileTargetManager, resolveAndroidTarget,
\* resolveAndSaveMobileTarget)
\* ------------------------------------------------------------------------

MaxTargets == 3

\* IMobileTarget: name and id are optional
Emu1 == [name |-> "Pixel_3", id |-> "emulator-5554",
         isVirtualTarget |-> TRUE, isOnline |-> TRUE]
Emu2 == [name |-> "Nexus_5", id |-> "undefined",
         isVirtualTarget |-> TRUE, isOnline |-> FALSE]
Dev1 == [name |-> "SM_G960", id |-> "R58M",
         isVirtualTarget |-> FALSE, isOnline |-> TRUE]
Dev2 == [name |-> "undefined", id |-> "ZX1G",
         isVirtualTarget |-> FALSE, isOnline |-> TRUE]

\* a second phone of the model of Dev1
Dev3 == [name |-> "SM_G960", id |-> "R58N",
         isVirtualTarget |-> FALSE, isOnline |-> TRUE]

MobileTargets == {Emu1, Emu2, Dev1, Dev2, Dev3}

NoTarget == [name |-> "undefined", id |-> "undefined",
             isVirtualTarget |-> FALSE, isOnline |-> FALSE]

\* this.targets: lists without repetition
TargetLists ==
    {l \in UNION {[1..n -> MobileTargets] : n \in 0..MaxTargets} :
        \A i, j \in DOMAIN l : i # j => l[i] # l[j]}

\* args.target of a debug configuration
TargetArgs == {"emulator", "device", "emulator-5554", "Pixel_3", "undefined"}

\* the predicates handed to selectTarget and selectAndPrepareTarget
AnyFilter == [byClass |-> FALSE, virtual |-> FALSE, name |-> "any",
              online |-> FALSE]

ClassFilter(virtual, name, online) ==
    [byClass |-> TRUE, virtual |-> virtual, name |-> name, online |-> online]

Passes(t, f) ==
    /\ f.byClass => t.isVirtualTarget = f.virtual
    /\ f.name # "any" => (t.name = f.name \/ t.id = f.name)
    /\ f.online => t.isOnline

\* Array.prototype.filter
RECURSIVE FilterList(_, _)
FilterList(l, f) ==
    IF l = <<>> THEN <<>>
    ELSE (IF Passes(Head(l), f) THEN <<Head(l)>> ELSE <<>>)
         \o FilterList(Tail(l), f)

getTargetList(targets, f) == FilterList(targets, f)

\* target?.name || target?.id
LabelOf(t) == IF t.name # "undefined" THEN t.name ELSE t.id

Labels(l) == [i \in DOMAIN l |-> LabelOf(l[i])]

\* Array.prototype.find over name === result || id === result
RECURSIVE Find(_, _)
Find(l, result) ==
    IF l = <<>> THEN NoTarget
    ELSE IF Head(l).name = result \/ Head(l).id = result THEN Head(l)
    ELSE Find(Tail(l), result)

\* what window.showQuickPick can return for a list: a label, or undefined
Picks(l) == {LabelOf(l[i]) : i \in DOMAIN l} \cup {"undefined"}

selectTarget_AlwaysAsk(targets, f, pick) ==
    LET targetList == getTargetList(targets, f)
    IN [out |-> Find(targetList, pick), chooser |-> <<Labels(targetList)>>]

\* MobileTargetManager.selectTarget; chooser is the list of the calls of
\* showQuickPick, each with its items
selectTarget(targets, f, pick) ==
    LET targetList == getTargetList(targets, f)
        first == IF targetList = <<>> THEN "undefined"
                 ELSE LabelOf(targetList[1])
        ask == Len(targetList) > 1
        result == IF ask THEN pick ELSE first
    IN [out |-> Find(targetList, result),
        chooser |-> IF ask THEN <<Labels(targetList)>> ELSE <<>>]

\* startSelection and the start of an offline emulator
selectAndPrepareTarget(targets, f, pick) == selectTarget(targets, f, pick)

\* MobileTargetManager.isVirtualTarget
CanRecognize(target) == target \in {"emulator", "device", "emulator-5554"}

isVirtualTarget(target) == target \in {"emulator", "emulator-5554"}

isAnyTarget(target) == target \in {"emulator", "device"}

\* adbHelper.getOnlineTargets
getOnlineTargets(targets) ==
    FilterList(targets, [AnyFilter EXCEPT !.online = TRUE])

CountOf(l, virtual) == Len(FilterList(l, ClassFilter(virtual, "any", FALSE)))

getTargetsCountByFilter(targets, virtual) == CountOf(targets, virtual)

\* the result of a target resolution: the target, the thrown error, the
\* calls of updateLaunchScenario and of the chooser
TargetResult(out, error, saved, chooser) ==
    [out |-> out, error |-> error, saved |-> saved, chooser |-> chooser]

getFirstOnlineAndroidTarget_Last(targets) ==
    IF getOnlineTargets(targets) # <<>>
    THEN getOnlineTargets(targets)[Len(getOnlineTargets(targets))]
    ELSE NoTarget

getFirstOnlineAndroidTarget(targets) ==
    IF getOnlineTargets(targets) # <<>>
    THEN getOnlineTargets(targets)[1] ELSE NoTarget

\* saveResult of resolveAndroidTarget
saveResult(targets, target, isAttachScenario) ==
    IF isAttachScenario
    THEN IF CountOf(getOnlineTargets(targets), target.isVirtualTarget) > 1
         THEN <<target.name>> ELSE <<>>
    ELSE <<target.name>>

androidFilter_AnyState(target, isAttachScenario) ==
    ClassFilter(isVirtualTarget(target),
                IF isAnyTarget(target) THEN "any" ELSE target, FALSE)

\* the predicate resolveAndroidTarget hands to selectAndPrepareTarget
androidFilter(target, isAttachScenario) ==
    ClassFilter(isVirtualTarget(target),
                IF isAnyTarget(target) THEN "any" ELSE target,
                isAttachScenario)

\* configArgs.target after resolveAndroidTarget: the id of the target it
\* returns
configTargetAfter(target, r) ==
    IF r.out # NoTarget THEN r.out.id ELSE target

\* AndroidCordovaPlatform.resolveAndroidTarget
resolveAndroidTarget(targets, target, isAttachScenario, pick) ==
    IF target # "undefined"
    THEN IF ~CanRecognize(target)
         THEN TargetResult(NoTarget, "Could not recognize type", <<>>, <<>>)
         ELSE LET f == androidFilter(target, isAttachScenario)
                  sel == selectAndPrepareTarget(targets, f, pick)
                  targetDevice == sel.out
              IN IF targetDevice # NoTarget
                 THEN TargetResult(targetDevice, "null",
                          IF isAnyTarget(target)
                          THEN saveResult(targets, targetDevice,
                                          isAttachScenario)
                          ELSE <<>>,
                          sel.chooser)
                 ELSE IF isAttachScenario /\ isAnyTarget(target)
                 THEN TargetResult(getFirstOnlineAndroidTarget(targets),
                                   "null", <<>>, sel.chooser)
                 ELSE TargetResult(NoTarget, "null", <<>>, sel.chooser)
    ELSE IF getFirstOnlineAndroidTarget(targets) = NoTarget
         THEN TargetResult(NoTarget, "no online debuggable targets",
                           <<>>, <<>>)
         ELSE TargetResult(getFirstOnlineAndroidTarget(targets), "null",
                           <<>>, <<>>)

\* AbstractMobilePlatform.resolveMobileTarget
resolveMobileTarget(targets, target, isAttachRequest, pick) ==
    selectAndPrepareTarget(targets,
        ClassFilter(isVirtualTarget(target),
                    IF isAnyTarget(target) THEN "any" ELSE target,
                    isAttachRequest),
        pick)

\* CordovaDebugSession.resolveAndSaveMobileTarget
resolveAndSaveMobileTarget(targets, target, platform, fromRunArgs, isAttach, pick) ==
    IF target # "undefined" /\ ~fromRunArgs
    THEN IF ~CanRecognize(target)
         THEN TargetResult(NoTarget, "Could not recognize type", <<>>, <<>>)
         ELSE LET sel == resolveMobileTarget(targets, target, isAttach, pick)
                  resultTarget == sel.out
              IN TargetResult(resultTarget, "null",
                     IF /\ resultTarget # NoTarget
                        /\ isAnyTarget(target)
                        /\ getTargetsCountByFilter(targets,
                               resultTarget.isVirtualTarget) > 1
                     THEN <<IF platform = "android" THEN resultTarget.name
                            ELSE resultTarget.id>>
                     ELSE <<>>,
                     sel.chooser)
    ELSE TargetResult(NoTarget, "null", <<>>, <<>>)

SelectTarget(targets, f, pick) ==
    /\ call = NoCall
    /\ call' = [fn |-> "selectTarget", targets |-> targets, filter |-> f,
                pick |-> pick, res |-> selectTarget(targets, f, pick)]

ResolveAndroidTarget(targets, target, isAttachScenario, pick) ==
    /\ call = NoCall
    /\ call' = [fn |-> "resolveAndroidTarget", targets |-> targets,
                target |-> target, attach |-> isAttachScenario,
                pick |-> pick,
                res |-> resolveAndroidTarget(targets, target,
                                             isAttachScenario, pick),
                configTarget |->
                    configTargetAfter(target,
                        resolveAndroidTarget(targets, target,
                                             isAttachScenario, pick))]

ResolveAndSaveMobileTarget(targets, target, platform, fromRunArgs, isAttach, pick) ==
    /\ call = NoCall
    /\ call' = [fn |-> "resolveAndSaveMobileTarget", targets |-> targets,
                target |-> target, attach |-> isAttach,
                pick |-> pick, platform |-> platform,
                fromRunArgs |-> fromRunArgs,
                res |-> resolveAndSaveMobileTarget(targets, target, platform,
                            fromRunArgs, isAttach, pick)]

Filters == {AnyFilter, ClassFilter(TRUE, "any", FALSE),
            ClassFilter(FALSE, "any", TRUE)}

\* the calls are made on a fresh manager
TargetNext ==
    /\ call = NoCall
    /\ \/ \E l \in TargetLists, f \in Filters :
             \E pick \in Picks(l) : SelectTarget(l, f, pick)
       \/ \E l \in TargetLists, t \in TargetArgs, a \in BOOLEAN :
             \E pick \in Picks(l) : ResolveAndroidTarget(l, t, a, pick)
       \/ \E l \in TargetLists, t \in TargetArgs, a \in BOOLEAN,
             pl \in {"android", "ios"}, r \in BOOLEAN :
             \E pick \in Picks(l) :
                 ResolveAndSaveMobileTarget(l, t, pl, r, a, pick)

\* ------------------------------------------------------------------------
\* AndroidCordovaPlatform.prepareForAttach: the output of the adb commands
\* ------------------------------------------------------------------------

\* A string is the sequence of its pieces, so that concatenation is \o,
\* substr(1) is Tail and trim() drops the white space at the ends.
MaxRows == 3

Undefined == <<"undefined">>

AppPackageName == <<"com.app">>

\* the pids the commands report
Pid1 == <<"1234">>
Pid2 == <<"4321">>

IsDigits(s) == s # <<>> /\ \A i \in DOMAIN s : s[i] \in {"1234", "4321"}

IsSpace(c) == c \in {" ", "\n", "\r"}

RECURSIVE TrimLeft(_)
TrimLeft(s) ==
    IF s # <<>> /\ IsSpace(Head(s)) THEN TrimLeft(Tail(s)) ELSE s

RECURSIVE TrimRight(_)
TrimRight(s) ==
    IF s # <<>> /\ IsSpace(s[Len(s)])
    THEN TrimRight(SubSeq(s, 1, Len(s) - 1)) ELSE s

\* String.prototype.trim
Trim(s) == TrimRight(TrimLeft(s))

\* Array.prototype.indexOf, counted from 1; 0 when the key is absent
IndexOf(keys, k) ==
    IF \E i \in DOMAIN keys : keys[i] = k
    THEN CHOOSE i \in DOMAIN keys :
             keys[i] = k /\ \A j \in 1..(i - 1) : keys[j] # k
    ELSE 0

\* fields[idx]: undefined outside the array
FieldAt(fields, idx) ==
    IF idx \in DOMAIN fields THEN fields[idx] ELSE Undefined

\* `@webview_devtools_remote_${pid}` and `@${appPackageName}_devtools_remote`
WebviewPath(pid) == <<"@", "webview_devtools_remote_">> \o pid

CrosswalkPath == <<"@">> \o AppPackageName \o <<"_devtools_remote">>

\* pathField.indexOf("_devtools_remote") !== -1
HasDevtoolsRemote(pathField) ==
    \E i \in DOMAIN pathField :
        pathField[i] \in {"webview_devtools_remote_", "_devtools_remote"}

\* the header of /proc/net/unix, and one with the columns in another order
SocketKeys ==
    <<"Num", "RefCount", "Protocol", "Flags", "Type", "St", "Inode", "Path">>

SocketKeysAlt ==
    <<"Num", "RefCount", "Protocol", "St", "Type", "Flags", "Inode", "Path">>

\* a line of /proc/net/unix under SocketKeys
SocketRow(flags, st, path) ==
    <<<<"0000000000000000:">>, <<"00000002">>, <<"00000000">>, <<flags>>,
      <<"0001">>, <<st>>, <<"12345">>, path>>

SocketRows ==
    {SocketRow("00010000", "01", WebviewPath(Pid1)),
     SocketRow("00010000", "02", WebviewPath(Pid1)),
     SocketRow("00000000", "01", WebviewPath(Pid1)),
     SocketRow("00010000", "01", WebviewPath(Pid2)),
     SocketRow("00010000", "01", CrosswalkPath),
     SocketRow("00010000", "01", Tail(WebviewPath(Pid1))),
     SocketRow("00010000", "01", <<"@", "jdwp-control">>),
     SubSeq(SocketRow("00010000", "01", <<>>), 1, 7)}

TablesOver(keys, rows, n) ==
    {[keys |-> k, rows |-> r] :
        k \in keys, r \in UNION {[1..m -> rows] : m \in 0..n}}

SocketTables == TablesOver({SocketKeys, SocketKeysAlt}, SocketRows, MaxRows)

\* the pid handed to the socket lookup
PidValues == {Pid1, Pid2, Undefined}

RECURSIVE ScanSockets(_, _, _, _, _)
ScanSockets(lines, flagsIdx, stIdx, pathIdx, pid) ==
    IF lines = <<>> THEN Undefined
    ELSE LET fields == Head(lines)
             pathField == FieldAt(fields, pathIdx)
             rest == ScanSockets(Tail(lines), flagsIdx, stIdx, pathIdx, pid)
         IN IF Len(fields) < 8 THEN rest
            ELSE IF \/ FieldAt(fields, flagsIdx) # <<"00010000">>
                    \/ FieldAt(fields, stIdx) # <<"01">>
            THEN rest
            ELSE IF Len(pathField) < 1 \/ pathField[1] # "@" THEN rest
            ELSE IF ~HasDevtoolsRemote(pathField) THEN rest
            ELSE IF pathField = WebviewPath(pid) THEN Tail(pathField)
            ELSE IF pathField = CrosswalkPath THEN Tail(pathField)
            ELSE rest

findAbstractName_AnyState(table, pid) ==
    ScanSockets(table.rows, IndexOf(table.keys, "Flags"),
                IndexOf(table.keys, "Flags"), IndexOf(table.keys, "Path"),
                pid)

\* findAbstractNameFunction, the part after the pid: the abstract name of
\* the output of `cat /proc/net/unix`
findAbstractName(table, pid) ==
    ScanSockets(table.rows, IndexOf(table.keys, "Flags"),
                IndexOf(table.keys, "St"), IndexOf(table.keys, "Path"), pid)

FindAbstractName(table, pid) ==
    /\ call = NoCall
    /\ call' = [fn |-> "findAbstractName", table |-> table, pid |-> pid,
                out |-> findAbstractName(table, pid)]

SocketsNext ==
    /\ call = NoCall
    /\ \E table \in SocketTables, pid \in PidValues :
          FindAbstractName(table, pid)

\* the header of `ps`, and one with the columns in another order
PsKeys == <<"USER", "PID", "PPID", "NAME">>

PsKeysAlt == <<"PID", "USER", "PPID", "NAME">>

\* a line of `ps`, split at PS_FIELDS_SPLITTER_RE
PsRow(first, second, name) == <<first, second, <<"1">>, name>>

PsRows ==
    {PsRow(<<"u0_a1">>, Pid1, AppPackageName),
     PsRow(Pid2, <<"u0_a2">>, AppPackageName),
     PsRow(<<"u0_a3">>, Pid2, <<"com.other">>),
     PsRow(<<>>, Pid1, AppPackageName),
     <<<<"root">>, Pid1>>}

MaxPsRows == 2

PsTables == TablesOver({PsKeys, PsKeysAlt}, PsRows, MaxPsRows)

NoTable == [keys |-> <<>>, rows |-> <<>>]

\* .filter(field => !!field)
RECURSIVE NonEmpty(_)
NonEmpty(fields) ==
    IF fields = <<>> THEN <<>>
    ELSE (IF Head(fields) # <<>> THEN <<Head(fields)>> ELSE <<>>)
         \o NonEmpty(Tail(fields))

RECURSIVE ScanPs(_, _, _)
ScanPs(lines, nameIdx, pidIdx) ==
    IF lines = <<>> THEN Undefined
    ELSE LET fields == NonEmpty(Head(lines))
         IN IF Len(fields) < nameIdx - 1
            THEN ScanPs(Tail(lines), nameIdx, pidIdx)
            ELSE IF FieldAt(fields, nameIdx) = AppPackageName
            THEN FieldAt(fields, pidIdx)
            ELSE ScanPs(Tail(lines), nameIdx, pidIdx)

getPidFromPs_SecondColumn(table) == ScanPs(table.rows, IndexOf(table.keys, "NAME"), 2)

\* findAbstractNameFunction: the pid of the output of `ps`
getPidFromPs(table) ==
    ScanPs(table.rows, IndexOf(table.keys, "NAME"),
           IndexOf(table.keys, "PID"))

\* what `pidof <package>` prints
PidofOutputs ==
    {Pid1 \o <<"\n">>, Pid2, <<>>, <<"\n">>,
     Pid1 \o <<" ">> \o Pid2 \o <<"\n">>,
     <<"pidof:", " ", "not found", "\n">>}

\* pid && /^[0-9]+$/.test(pid.trim())
IsPid(pid) == pid # <<>> /\ IsDigits(Trim(pid))

\* ------------------------------------------------------------------------
\* AndroidCordovaPlatform.prepareForAttach
\* ------------------------------------------------------------------------

VARIABLES att

\* retryAsync(findAbstractNameFunction, match => !!match, 5, 1, 5000, ...)
MaxRetries == 5

FirstIteration == 1

RetryDelay == 5000

UnableToFindAdb == "Unable to find adb"

UnableToFindLocalAbstractName ==
    "Unable to find 'localabstract' name of Cordova app"

\* the error codes of a command that fails
AdbErrors == {"ENOENT", "EIO"}

AttachPort == 9222

Pending == [state |-> "pending", value |-> "undefined"]

Settled(state, value) == [state |-> state, value |-> value]

NoInfo == [targetDevice |-> "undefined", port |-> 0]

NewAttach ==
    [pc |-> "none", target |-> "undefined", port |-> 0,
     devices |-> "none", resolving |-> FALSE, unhandled |-> "null",
     tgt |-> Pending, pkg |-> Pending, pkgReads |-> 0, reads |-> <<>>,
     outcome |-> Pending,
     iteration |-> 0, attempts |-> 0, delays |-> 0, timer |-> 0,
     pidof |-> "none", pidofOut |-> <<>>, psCalls |-> 0,
     psTable |-> NoTable, pid |-> Undefined, socketsCalls |-> 0,
     abstractName |-> Undefined,
     forward |-> "none", forwardCalls |-> 0,
     adbPortForwardingInfo |-> NoInfo, cancelled |-> FALSE]

\* prepareForAttach returns a rejected promise
RejectAttach(a, error) ==
    [a EXCEPT !.pc = "done", !.outcome = Settled("rejected", error)]

\* findAbstractNameFunction is called: the pidof command is issued
findAbstractNameFunction(a) ==
    [a EXCEPT !.pc = "pidof", !.attempts = @ + 1, !.pidof = "running"]

\* the promise of findAbstractNameFunction is settled: its locals are gone
attemptOver(a) ==
    [a EXCEPT !.pidof = "none", !.pidofOut = <<>>, !.psCalls = 0,
              !.psTable = NoTable, !.pid = Undefined, !.socketsCalls = 0]

beginRetry_FromZero(a) == findAbstractNameFunction([a EXCEPT !.iteration = 0])

\* the call of retryAsync in prepareForAttach
beginRetry(a) ==
    findAbstractNameFunction([a EXCEPT !.iteration = FirstIteration])

\* Promise.all([packagePromise, resolveTagetPromise]).then(...)
promiseAll(a) ==
    IF a.pc # "preparing" THEN a
    ELSE IF a.pkg.state = "rejected" THEN RejectAttach(a, a.pkg.value)
    ELSE IF a.tgt.state = "rejected" THEN RejectAttach(a, a.tgt.value)
    ELSE IF a.pkg.state = "resolved" /\ a.tgt.state = "resolved"
    THEN beginRetry(a)
    ELSE a

\* retry of retryAsync: an attempt gave no match or was rejected
retry(a, maxRetries, delayTime, failure) ==
    IF a.cancelled THEN RejectAttach(a, "tokenCanceled")
    ELSE IF a.iteration < maxRetries
    THEN [a EXCEPT !.pc = "delay", !.delays = @ + 1, !.timer = delayTime]
    ELSE RejectAttach(a, failure)

attemptFailed(a) ==
    retry(attemptOver(a), MaxRetries, RetryDelay,
          UnableToFindLocalAbstractName)

\* the sockets command is issued with the pid of the attempt
socketLookup(a, pid) ==
    [a EXCEPT !.pc = "sockets", !.pid = pid, !.socketsCalls = @ + 1]

\* the pidof command ends: .then((pid) => ...).catch((err) => ...)
pidofDone(a, ok, pid) ==
    IF ok
    THEN IF IsPid(pid)
         THEN socketLookup([a EXCEPT !.pidof = "ok", !.pidofOut = pid],
                           Trim(pid))
         ELSE [a EXCEPT !.pc = "ps", !.pidof = "ok", !.pidofOut = pid,
                        !.psCalls = @ + 1]
    ELSE socketLookup([a EXCEPT !.pidof = "error"], Undefined)

\* the ps command ends
psDone(a, ok, table) ==
    IF ok
    THEN socketLookup([a EXCEPT !.psTable = table], getPidFromPs(table))
    ELSE attemptFailed(a)

\* retryAsync resolves with the match: the forward command is issued
forwardStart(a, abstractName) ==
    [attemptOver(a) EXCEPT !.pc = "forward", !.abstractName = abstractName,
                           !.forward = "running", !.forwardCalls = @ + 1]

\* the sockets command ends: the result of the attempt goes to retryAsync
socketsDone(a, ok, table) ==
    IF ok /\ findAbstractName(table, a.pid) # Undefined
    THEN forwardStart(a, findAbstractName(table, a.pid))
    ELSE attemptFailed(a)

forwardDone_Retry(a, ok) ==
    IF ok
    THEN [a EXCEPT !.pc = "done", !.forward = "ok",
                   !.adbPortForwardingInfo =
                       [targetDevice |-> a.tgt.value, port |-> a.port],
                   !.outcome = Settled("resolved", "attachArgs")]
    ELSE attemptFailed([a EXCEPT !.forward = "failed"])

\* the forward command ends
forwardDone(a, ok) ==
    IF ok
    THEN [a EXCEPT !.pc = "done", !.forward = "ok",
                   !.adbPortForwardingInfo =
                       [targetDevice |-> a.tgt.value, port |-> a.port],
                   !.outcome = Settled("resolved", "attachArgs")]
    ELSE RejectAttach([a EXCEPT !.forward = "failed"], "forward failed")

\* the executor of resolveTagetPromise after `adb devices`: an error thrown
\* in the async executor rejects the promise of the executor, which nobody
\* holds, and settles nothing
devicesDone(a, res) ==
    IF res = "ok" THEN [a EXCEPT !.devices = "ok", !.resolving = TRUE]
    ELSE [a EXCEPT !.devices = res,
                   !.unhandled = IF res = "ENOENT" THEN UnableToFindAdb
                                 ELSE res]

\* the executor of resolveTagetPromise after resolveAndroidTarget
targetDone(a, r) ==
    promiseAll([a EXCEPT !.resolving = FALSE,
                         !.tgt = IF r.error # "null"
                                 THEN Settled("rejected", r.error)
                                 ELSE IF r.out = NoTarget
                                 THEN Settled("rejected",
                                              "Unable to find target")
                                 ELSE Settled("resolved", r.out.id)])

\* a readFile of the manifest ends with res
readDone(a, res) == [a EXCEPT !.reads = Append(@, res)]

packageDone_AnyError(a, res) ==
    IF res = "ok"
    THEN promiseAll([readDone(a, res) EXCEPT
                        !.pkg = Settled("resolved", AppPackageName)])
    ELSE IF a.pkgReads = 1
    THEN [readDone(a, res) EXCEPT !.pkgReads = 2]
    ELSE promiseAll([readDone(a, res) EXCEPT
                        !.pkg = Settled("rejected", res)])

\* readFile of the manifest ends; ENOENT on the first path reads the second
packageDone(a, res) ==
    IF res = "ok"
    THEN promiseAll([readDone(a, res) EXCEPT
                        !.pkg = Settled("resolved", AppPackageName)])
    ELSE IF res = "ENOENT" /\ a.pkgReads = 1
    THEN [readDone(a, res) EXCEPT !.pkgReads = 2]
    ELSE promiseAll([readDone(a, res) EXCEPT
                        !.pkg = Settled("rejected", res)])

prepareForAttach(target, port) ==
    /\ att.pc = "none"
    /\ att' = [NewAttach EXCEPT !.pc = "preparing", !.target = target,
                                !.port = port, !.devices = "running",
                                !.pkgReads = 1]

DevicesDone(res) ==
    /\ att.devices = "running"
    /\ att' = devicesDone(att, res)

TargetDone(targets, pick) ==
    /\ att.resolving
    /\ att' = targetDone(att, resolveAndroidTarget(targets, att.target,
                                                   TRUE, pick))

PackageDone(res) ==
    /\ att.pc # "none"
    /\ att.pkg.state = "pending"
    /\ att' = packageDone(att, res)

PidofDone(ok, pid) ==
    /\ att.pc = "pidof"
    /\ att' = pidofDone(att, ok, pid)

PsDone(ok, table) ==
    /\ att.pc = "ps"
    /\ att' = psDone(att, ok, table)

SocketsDone(ok, table) ==
    /\ att.pc = "sockets"
    /\ att' = socketsDone(att, ok, table)

\* delay(delayTime) ends: retryAsync is called with iteration + 1
DelayDone ==
    /\ att.pc = "delay"
    /\ att' = findAbstractNameFunction(
                  [att EXCEPT !.iteration = @ + 1, !.timer = 0])

ForwardDone(ok) ==
    /\ att.pc = "forward"
    /\ att' = forwardDone(att, ok)

\* the session cancels this.cancellationTokenSource
CancelAttach ==
    /\ att.pc \notin {"none", "done"}
    /\ ~att.cancelled
    /\ att' = [att EXCEPT !.cancelled = TRUE]

\* the target lists and socket tables of the attach runs
AttachTargetLists == {<<>>, <<Emu1>>, <<Dev1, Dev2>>}

AttachSocketTables ==
    TablesOver({SocketKeys},
               {SocketRow("00010000", "01", WebviewPath(Pid1)),
                SocketRow("00010000", "02", WebviewPath(Pid1)),
                SocketRow("00010000", "01", CrosswalkPath)}, 1)

AttachNext ==
    \/ \E t \in {"device", "undefined"} : prepareForAttach(t, AttachPort)
    \/ \E res \in {"ok"} \cup AdbErrors : DevicesDone(res)
    \/ \E l \in AttachTargetLists : \E pick \in Picks(l) :
          TargetDone(l, pick)
    \/ \E res \in {"ok"} \cup AdbErrors : PackageDone(res)
    \/ \E pid \in PidofOutputs : PidofDone(TRUE, pid)
    \/ PidofDone(FALSE, <<>>)
    \/ \E table \in PsTables : PsDone(TRUE, table)
    \/ PsDone(FALSE, NoTable)
    \/ \E table \in AttachSocketTables : SocketsDone(TRUE, table)
    \/ SocketsDone(FALSE, NoTable)
    \/ DelayDone
    \/ \E ok \in BOOLEAN : ForwardDone(ok)
    \/ CancelAttach

\* ------------------------------------------------------------------------
\* AndroidCordovaPlatform.launchApp: the direct build and deploy
\* ------------------------------------------------------------------------

MaxRunOut == 2

\* lines of the output of `cordova run android`
RunLines ==
    {"LAUNCH SUCCESS", "ERROR running app", "ERROR: Failed to launch",
     "Error: device offline", "error: no devices"}

\* /(ERROR.*)/
UpperErrorRe == {"ERROR running app", "ERROR: Failed to launch"}

\* /error:.*/i
ErrorColonRe ==
    {"ERROR: Failed to launch", "Error: device offline", "error: no devices"}

RunOutputs == UNION {[1..n -> RunLines] : n \in 0..MaxRunOut}

ErrorRunningAndroid == "Error running android"

AppSuccessfullyLaunched == "App successfully launched"

cordovaResult_StdoutOnly(runOutput, stderr) ==
    IF Test(UpperErrorRe, runOutput)
    THEN [state |-> "rejected", value |-> ErrorRunningAndroid, log |-> <<>>]
    ELSE [state |-> "resolved", value |-> "undefined",
          log |-> <<AppSuccessfullyLaunched>>]

\* the handler of the output of cordovaRunCommand
cordovaResult(runOutput, stderr) ==
    IF Test(UpperErrorRe, runOutput) \/ Test(ErrorColonRe, stderr)
    THEN [state |-> "rejected", value |-> ErrorRunningAndroid, log |-> <<>>]
    ELSE [state |-> "resolved", value |-> "undefined",
          log |-> <<AppSuccessfullyLaunched>>]

\* cordovaRunCommand resolves with [stdout, stderr]
CordovaRunDone(runOutput, stderr) ==
    /\ call = NoCall
    /\ call' = [fn |-> "launchApp", ran |-> TRUE, runOutput |-> runOutput,
                stderr |-> stderr, res |-> cordovaResult(runOutput, stderr)]

\* cordovaRunCommand rejects: the handler is not run
CordovaRunFailed(error) ==
    /\ call = NoCall
    /\ call' = [fn |-> "launchApp", ran |-> FALSE, runOutput |-> <<>>,
                stderr |-> <<>>,
                res |-> [state |-> "rejected", value |-> error, log |-> <<>>]]

DirectNext ==
    /\ call = NoCall
    /\ \/ \E o \in RunOutputs, e \in RunOutputs : CordovaRunDone(o, e)
       \/ CordovaRunFailed("ENOENT")

\* ------------------------------------------------------------------------
\* IOSCordovaPlatform.launchApp
\* ------------------------------------------------------------------------

MaxListLines == 2

\* launchArgs.target: a string is the sequence of its pieces
IosTargets ==
    {<<"device">>, <<"Device">>, <<"emulator">>, <<"Emulator">>,
     <<"iPhone-8">>, <<"iPad-Pro">>}

\* String.prototype.toLowerCase on the targets
toLowerCase(s) ==
    IF s = <<"Device">> THEN <<"device">>
    ELSE IF s = <<"Emulator">> THEN <<"emulator">>
    ELSE IF s = <<"iPhone-8">> THEN <<"iphone-8">>
    ELSE IF s = <<"iPad-Pro">> THEN <<"ipad-pro">>
    ELSE s

SimulatorsHeader == <<"Available iOS Simulators:">>

\* lines of the output of `cordova emulate ios --list`
ListLines ==
    {SimulatorsHeader,
     <<"\t", "iPhone-8", ",", " 13.0">>,
     <<"\t", "iPad-Pro", ",", " (9.7-inch)", ",", " 13.0">>,
     <<"iPad-Pro", ",", " 13.0">>,
     <<"** RUN SUCCEEDED **">>}

RECURSIVE SeqsOver(_, _)
\* the sequences of at most n elements of s
SeqsOver(s, n) ==
    IF n = 0 THEN {<<>>}
    ELSE LET shorter == SeqsOver(s, n - 1) IN
         shorter \cup {Append(q, x) : q \in shorter, x \in s}

ListOutputs == SeqsOver(ListLines, MaxListLines)

RECURSIVE LastIndexOf(_, _, _)
\* the last position at or before i of piece c in s, 0 if there is none
LastIndexOf(s, c, i) ==
    IF i = 0 THEN 0
    ELSE IF s[i] = c THEN i
    ELSE LastIndexOf(s, c, i - 1)

RECURSIVE Without(_, _)
\* s without its first piece c: s.replace(c, "")
Without(s, c) ==
    IF s = <<>> THEN <<>>
    ELSE IF Head(s) = c THEN Tail(s)
    ELSE <<Head(s)>> \o Without(Tail(s), c)

\* value.match(/(.*)(?=,)/gm): the text of the line before its last comma,
\* then .replace(/\t/, ""); null for a line without a comma
emulatorOf(value) ==
    LET i == LastIndexOf(value, ",", Len(value)) IN
    IF i = 0 THEN [null |-> TRUE, text |-> <<>>]
    ELSE [null |-> FALSE, text |-> Without(SubSeq(value, 1, i - 1), "\t")]

\* output[0].replace(/Available iOS Simulators:/, "").split("\n").map(...)
emulatorsOf(output) ==
    [i \in DOMAIN output |->
        emulatorOf(IF output[i] = SimulatorsHeader THEN <<>> ELSE output[i])]

\* emulators.indexOf(target) >= 0
isListed(output, target) ==
    \E i \in DOMAIN output :
        emulatorsOf(output)[i] = [null |-> FALSE, text |-> target]

InvalidTarget == "Invalid target"

UnableToLaunchOnNonMac == "Unable to launch iOS on non-mac machines"

ListCommand == <<"emulate", "ios", "--list">>

\* the rejection of the promise of launchApp
iosRejected(c, error) ==
    [c EXCEPT !.pc = "done",
              !.outcome = [state |-> "rejected", value |-> error]]

\* addBuildFlagToArgs() without run arguments
BuildFlag == "--buildFlag=-UseModernBuildSystem=0"

\* the build and deploy command is started, for a launch without run
\* arguments; with --livereload it is started by startIonicDevServer
iosRun(c, args, liveReload) ==
    [c EXCEPT !.pc = "run",
              !.commands = Append(@, args \o <<BuildFlag>> \o
                                     IF liveReload THEN <<"--livereload">>
                                     ELSE <<>>)]

\* the continuation of checkIfTargetIsiOSSimulator and of launchApp after
\* `emulate ios --list` resolved with output
checkIfTargetIsiOSSimulator(c, output) ==
    IF isListed(output, c.target)
    THEN iosRejected(c, InvalidTarget)
    ELSE iosRun(c, <<"emulate", "ios">>, c.liveReload)

\* launchApp up to its first command
iosLaunchApp(darwin, target, liveReload) ==
    LET isDevice == toLowerCase(target) = <<"device">>
        t == IF toLowerCase(target) = <<"emulator">> THEN <<"emulator">>
             ELSE target
        c == [fn |-> "iosLaunchApp", pc |-> "start", darwin |-> darwin,
              isDevice |-> isDevice, target |-> t, liveReload |-> liveReload,
              commands |-> <<>>, listed |-> FALSE, output |-> <<>>,
              outcome |-> [state |-> "pending", value |-> "undefined"]]
    IN IF ~darwin THEN iosRejected(c, UnableToLaunchOnNonMac)
       ELSE IF isDevice
       THEN iosRun(c, <<"run", "ios", "--device">>, liveReload)
       ELSE IF t = <<"emulator">> THEN iosRejected(c, InvalidTarget)
       ELSE [c EXCEPT !.pc = "list", !.commands = <<ListCommand>>]

\* the build and deploy command, with startDebugProxy for a device, ends
iosRunDone(c, ok) ==
    IF ok
    THEN [c EXCEPT !.pc = "done",
                   !.outcome = [state |-> "resolved", value |-> "undefined"]]
    ELSE IF ~c.isDevice /\ ~c.liveReload /\ c.target = <<"emulator">>
    THEN [c EXCEPT !.pc = "relist", !.commands = Append(@, ListCommand)]
    ELSE iosRejected(c, "Error")

IosLaunchApp(darwin, target, liveReload) ==
    /\ call = NoCall
    /\ call' = iosLaunchApp(darwin, target, liveReload)

\* `emulate ios --list` ends
IosListDone(ok, output) ==
    /\ call.fn = "iosLaunchApp"
    /\ call.pc \in {"list", "relist"}
    /\ call' = IF call.pc = "relist" \/ ~ok THEN iosRejected(call, "Error")
               ELSE checkIfTargetIsiOSSimulator(
                        [call EXCEPT !.listed = TRUE, !.output = output],
                        output)

IosRunDone(ok) ==
    /\ call.fn = "iosLaunchApp"
    /\ call.pc = "run"
    /\ call' = iosRunDone(call, ok)

IosNext ==
    \/ \E darwin \in BOOLEAN, target \in IosTargets, liveReload \in BOOLEAN :
          IosLaunchApp(darwin, target, liveReload)
    \/ \E output \in ListOutputs : IosListDone(TRUE, output)
    \/ IosListDone(FALSE, <<>>)
    \/ \E ok \in BOOLEAN : IosRunDone(ok)

\* ------------------------------------------------------------------------
\* Specifications
\* ------------------------------------------------------------------------

IdleSession == NewSession("attach")

vars == <<det, proc, nCalls, ionicDevServer, ionicLivereloadProcess,
          disposed, outLeft, callsLeft, ses, call, att>>

\* the state outside the component a specification is about
restVars == <<ses, call, att>>

Idle == ses = IdleSession /\ call = NoCall /\ att = NewAttach

\* one call of startIonicDevServer and the events of its process
Init == DevInit(1, MaxOut) /\ Idle

Next == DevNext /\ UNCHANGED restVars

Spec == Init /\ [][Next]_vars

\* one call over the lines of the app-ready patterns
AppInit == DevInit(1, MaxAppOut) /\ Idle

SpecApp == AppInit /\ [][AppNext /\ UNCHANGED restVars]_vars

\* one call over the lines of the error patterns
ErrInit == DevInit(1, MaxErrOut) /\ Idle

SpecErr == ErrInit /\ [][ErrNext /\ UNCHANGED restVars]_vars

\* repeated launchApp on one platform object
PlatInit == DevInit(MaxStarts, MaxPlatOut) /\ Idle

SpecPlatform == PlatInit /\ [][PlatNext /\ UNCHANGED restVars]_vars

\* one debug session
SessionInit == DevInit(0, 0) /\ SesInit /\ call = NoCall /\ att = NewAttach

SpecSession == SessionInit /\ [][SesNext /\ UNCHANGED <<devVars, call, att>>]_vars

\* every awaited call of the session settles, with success or an error, and
\* a request that was sent arrives; the client's requests are not forced
SessionCompletes ==
    LET Rest == UNCHANGED <<devVars, call, att>> IN
    /\ WF_vars(Rest /\ \E ok \in BOOLEAN, name \in ErrorNames(ses),
                              mobile \in BOOLEAN : LaunchStep(ok, name, mobile))
    /\ WF_vars(Rest /\ \E ok \in BOOLEAN, name \in ErrorNames(ses),
                              mobile \in BOOLEAN : AttachStep(ok, name, mobile))
    /\ WF_vars(Rest /\ \E r \in Reqs, ok \in BOOLEAN : CleanUpStep(r, ok))
    /\ WF_vars(Rest /\ LaunchAttached)
    /\ WF_vars(Rest /\ ses.pc["attach"] = "requested" /\ attachRequest)

SpecSessionFair == SpecSession /\ SessionCompletes

\* one call of a platform resolver
ResolveInit == DevInit(0, 0) /\ Idle

SpecResolve == ResolveInit /\ [][ResolveNext /\ UNCHANGED <<devVars, ses, att>>]_vars

\* one call of a target resolution
TargetInit == DevInit(0, 0) /\ Idle

SpecTarget == TargetInit /\ [][TargetNext /\ UNCHANGED <<devVars, ses, att>>]_vars

\* one socket lookup
SocketsInit == DevInit(0, 0) /\ Idle

SpecSockets == SocketsInit /\ [][SocketsNext /\ UNCHANGED <<devVars, ses, att>>]_vars

\* one call of prepareForAttach and the commands it runs
AttachInit == DevInit(0, 0) /\ Idle

SpecAttach == AttachInit /\ [][AttachNext /\ UNCHANGED <<devVars, ses, call>>]_vars

\* one call of IOSCordovaPlatform.launchApp
IosInit == DevInit(0, 0) /\ Idle

SpecIos == IosInit /\ [][IosNext /\ UNCHANGED <<devVars, ses, att>>]_vars

\* one direct launch
DirectInit == DevInit(0, 0) /\ Idle

SpecDirect == DirectInit /\ [][DirectNext /\ UNCHANGED <<devVars, ses, att>>]_vars


\* prepareForAttach when every command, read, chooser call and delay that
\* was started completes: each completion is weakly fair; the cancellation
\* of the session is not
AttachCompletes ==
    LET Rest == UNCHANGED <<devVars, ses, call>> IN
    /\ WF_vars(Rest /\ \E res \in {"ok"} \cup AdbErrors : DevicesDone(res))
    /\ WF_vars(Rest /\ \E l \in AttachTargetLists : \E pick \in Picks(l) :
                          TargetDone(l, pick))
    /\ WF_vars(Rest /\ \E res \in {"ok"} \cup AdbErrors : PackageDone(res))
    /\ WF_vars(Rest /\ (PidofDone(FALSE, <<>>)
                          \/ \E pid \in PidofOutputs : PidofDone(TRUE, pid)))
    /\ WF_vars(Rest /\ (PsDone(FALSE, NoTable)
                          \/ \E table \in PsTables : PsDone(TRUE, table)))
    /\ WF_vars(Rest /\ (SocketsDone(FALSE, NoTable)
                          \/ \E table \in AttachSocketTables :
                                 SocketsDone(TRUE, table)))
    /\ WF_vars(Rest /\ DelayDone)
    /\ WF_vars(Rest /\ \E ok \in BOOLEAN : ForwardDone(ok))

SpecAttachFair == SpecAttach /\ AttachCompletes


\* ------------------------------------------------------------------------
\* Properties of startIonicDevServer
\* ------------------------------------------------------------------------

\* the calls made so far that spawned a process
Started == {p \in Procs : proc[p] # "none"}

\* a fatal pattern in the lines s: an error line or the interfaces prompt
HasFatal(s) == Test(errorRegex, s) \/ Test(MultipleInterfacesRe, s)

\* the output s holds a server-ready line and, after it, an app-ready line
ReadyThenApp(s) ==
    \E i, j \in 1 .. Len(s) :
        i < j /\ s[i] \in SERVER_URL_RE /\ s[j] \in appReadyRegex

\* C1: the operation resolves only once ServerReady has been entered (an
\* app-ready line read while ServerReady has not been entered leaves the
\* promise unresolved), and an output with a server-ready line followed later
\* by an app-ready line and no fatal line resolves it, unless a timer fired or
\* the process exited first.
C1_ReadyOrdering ==
    \A p \in Started :
        LET d == det[p] IN
        /\ d.promise.state = "resolved" => d.serverReady /\ d.appReady
        /\ d.appReady => d.serverReady
        /\ ~d.serverReady => d.promise.state # "resolved"
        /\ (ReadyThenApp(d.serverOut) /\ ~HasFatal(d.serverOut) /\ ~HasFatal(d.serverErr))
             => \/ d.promise.state = "resolved"
                \/ d.promise.state = "rejected" /\ d.promise.kind \in {"timeout", "exit"}

C1_Witness ==
    \E p \in Started :
        /\ det[p].cliArgs = "android"
        /\ det[p].serverOut = <<UrlLine, NoiseLine, LaunchLine>>
        /\ det[p].promise.state = "resolved"
        /\ det[p].promise.detail = <<"http://localhost:8100">>

\* C10: the server-ready timer is armed from the start and disarmed exactly
\* once, on entry to ServerReady; the app-ready timer is armed only once
\* ServerReady has been entered; the two timers are never armed together;
\* and once AppReady is reached no timer is armed.
C10_Timers ==
    \A p \in Started :
        LET d == det[p] IN
        /\ d.timer.server # "unset"
        /\ ~d.serverReady => d.timer.server \in {"armed", "fired"}
        /\ d.clears.server = (IF d.serverReady THEN 1 ELSE 0)
        /\ d.serverReady => d.timer.server \in {"cleared", "fired"}
        /\ d.timer.app # "unset" => d.serverReady
        /\ ~(d.timer.server = "armed" /\ d.timer.app = "armed")
        /\ d.appReady => d.timer.server # "armed" /\ d.timer.app # "armed"

C10_Witness ==
    \E p \in Started :
        /\ det[p].appReady
        /\ det[p].cliArgs = "android"
        /\ det[p].timer = [server |-> "cleared", app |-> "cleared"]

\* the lines the step appended to a buffer
Appended(old, new) == SubSeq(new, Len(old) + 1, Len(new))

\* the chunk of the data event of the step, <<>> in any other step
ChunkOf(p) ==
    IF det'[p].serverErr # det[p].serverErr
    THEN Appended(det[p].serverErr, det'[p].serverErr)
    ELSE Appended(det[p].serverOut, det'[p].serverOut)

\* the detector takes the buffers of d for fatal
SeenFatal(d) ==
    \/ getServerErrorMessage(d, d.serverOut) # "null"
    \/ getServerErrorMessage(d, d.serverErr) # "null"

RejectedWith(line) ==
    [state |-> "rejected", kind |-> "tool", detail |-> <<line>>, ms |-> 0]

\* a chunk is handled while the promise is pending and ServerReady is not
\* entered, and its first error line is ahead of any server-ready line in it
FatalBeforeServerReady(p) ==
    LET e == FirstMatch(ChunkOf(p), errorRegex, 1)
        u == FirstMatch(ChunkOf(p), SERVER_URL_RE, 1)
    IN /\ p \in Started
       /\ det[p].promise.state = "pending"
       /\ ~det[p].serverReady
       /\ e # 0
       /\ u = 0 \/ e < u
       /\ SeenFatal(det'[p])

\* a resolved promise stays as it is
SettledStays(p) ==
    det[p].promise.state = "resolved" => det'[p].promise = det[p].promise

\* C2: an error line that arrives before ServerReady rejects the operation
\* with a message that carries exactly that line, and nothing handled after the
\* operation resolved changes its outcome or its value.
C2_FatalBeforeServerReady ==
    [][\A p \in Procs :
          /\ FatalBeforeServerReady(p)
                => det'[p].promise = RejectedWith(Exec(errorRegex, ChunkOf(p)))
          /\ SettledStays(p)]_vars

\* the place in s of the line that completes readiness, 0 if none does
ReadyAt(cliArgs, s) ==
    LET u == FirstMatch(s, SERVER_URL_RE, 1)
        a == FirstMatch(s, appReadyRegex, 1)
    IN IF cliArgs = "serve" THEN u
       ELSE IF u = 0 \/ a = 0 THEN 0
       ELSE IF u > a THEN u ELSE a

\* C3: an error line that is in the output before AppReady is reached keeps
\* the operation from resolving, also when it comes in the chunk that holds
\* the server-ready and app-ready lines, ahead of them.
C3_FatalNeverResolves ==
    \A p \in Started :
        LET d == det[p]
            e == FirstMatch(d.serverOut, errorRegex, 1)
            r == ReadyAt(d.cliArgs, d.serverOut)
        IN (e # 0 /\ (r = 0 \/ e < r)) => d.promise.state # "resolved"

\* C9: once the promise is rejected, no later event enters ServerReady or
\* AppReady, arms a timer, logs "Building and deploying app" or writes
\* launchArgs.devServerPort.
C9_FailedAbsorbing ==
    [][\A p \in Procs :
          det[p].promise.state = "rejected"
             => /\ det'[p].serverReady = det[p].serverReady
                /\ det'[p].appReady = det[p].appReady
                /\ det'[p].deployLogs = det[p].deployLogs
                /\ det'[p].portWrites = det[p].portWrites
                /\ \A h \in {"server", "app"} :
                      det'[p].timer[h] = "armed" => det[p].timer[h] = "armed"]_vars

\* the dev-server processes that are alive
Live == {p \in Procs : proc[p] = "running"}

\* C7: after a readiness failure (fatal line, timeout, multiple interfaces)
\* followed by the disposal of the platform, no dev-server process the
\* platform spawned is alive.
C7_NoProcessLeft ==
    \A p \in Procs :
        (/\ disposed
         /\ det[p].promise.state = "rejected"
         /\ det[p].promise.kind \in {"tool", "timeout", "multi"})
            => p \notin Live

\* C8: at most one dev-server process of an IonicDevServer is alive, and
\* the IonicDevServer holds the handle of the one that is.
C8_OneProcess ==
    /\ Cardinality(Live) <= 1
    /\ \A p \in Live : ionicLivereloadProcess = p

\* C4: cleanUp runs at most once in a session, and so do
\* platform.stopAndCleanUp and sessionManager.terminate, whatever the
\* interleaving of a failing launchRequest, a failing attachRequest and
\* disconnectRequest.
C4_CleanUpOnce ==
    /\ ses.cleanUpsStarted <= 1
    /\ ses.stopCalls <= 1
    /\ ses.terminateCalls <= 1

\* cleanUp is called by request r in this step
CleanUpCalled(r) ==
    /\ ses'.cleanUpsStarted = ses.cleanUpsStarted + 1
    /\ ses'.pc[r] # ses.pc[r]
    /\ ses'.pc[r] \in CleanUpAwaits \cup {"crashed"}

\* every cleanUp called so far has returned, one at least has, and neither
\* reference was assigned since the latest one was called
AfterCleanUp ==
    /\ ses.cleanUpsStarted >= 1
    /\ ses.cleanUpsDone = ses.cleanUpsStarted
    /\ ~ses.assignedSinceCleanUp

\* C5: a cleanUp called after a cleanUp that has returned finds both
\* references null, calls neither platform.stopAndCleanUp nor
\* cordovaCdpProxy.stopServer again, and runs to its last await without
\* throwing.
C5_SecondCleanUp ==
    [][\A r \in Reqs :
          (AfterCleanUp /\ CleanUpCalled(r))
             => /\ ses.platform = 0
                /\ ~ses.cordovaCdpProxy
                /\ ses'.stopCalls = ses.stopCalls
                /\ ses'.stopServerCalls = ses.stopServerCalls
                /\ ses'.pc[r] = "cu_logger"]_vars

C5_Witness ==
    /\ ses.client = "launch"
    /\ ses.pc["disconnect"] = "idle"
    /\ ses.resp["attach"] = "error"
    /\ ses.resp["launch"] = "error"
    /\ ses.cleanUpsDone = 2
    /\ ses.stopCalls = 1
    /\ ses.stopServerCalls = 1

\* C6: once a cleanUp of the session has completed, the proxy server the
\* session created is stopped and the session holds no reference to it.
C6_ProxyReleased ==
    ses.cleanUpsDone >= 1
       => /\ ses.proxyState \notin {"creating", "running"}
          /\ ~ses.cordovaCdpProxy

\* the timer h of call p fires in this step
TimerFiresNow(p, h) ==
    det[p].timer[h] = "armed" /\ det'[p].timer[h] = "fired"

\* the deadline of phase h: devServerTimeout when it is set, 60000 ms for
\* the server-ready phase and 120000 ms for the app-ready phase otherwise
DeadlineOf(d, h) ==
    IF d.devServerTimeout # 0 THEN d.devServerTimeout
    ELSE IF h = "server" THEN DefaultServerReadyTimeout
    ELSE DefaultAppReadyTimeout

\* C11: when the server-ready deadline elapses before ServerReady, or the
\* app-ready deadline after ServerReady and before AppReady, a pending
\* operation is rejected with a timeout outcome, which is no tool-reported
\* error and which names the phase and the configured deadline.
C11_Timeout ==
    [][\A p \in Procs, h \in {"server", "app"} :
          (TimerFiresNow(p, h) /\ det[p].promise.state = "pending")
             => /\ det'[p].promise = [state |-> "rejected", kind |-> "timeout",
                                      detail |-> <<h>>,
                                      ms |-> DeadlineOf(det[p], h)]
                /\ det'[p].promise.kind # "tool"
                /\ h = "server" => ~det[p].serverReady
                /\ h = "app" => det[p].serverReady /\ ~det[p].appReady]_vars

C11_Witness ==
    \E p \in Started :
        /\ det[p].cliArgs = "iosEmulate"
        /\ det[p].serverReady /\ ~det[p].appReady
        /\ det[p].promise = [state |-> "rejected", kind |-> "timeout",
                             detail |-> <<"app">>, ms |-> DefaultAppReadyTimeout]

\* a chunk with the line "utils-network error while checking" is handled
\* while the promise of call p is pending
NetCheckHandled(p) ==
    /\ p \in Started
    /\ det[p].promise.state = "pending"
    /\ Test(skipErrorRe, ChunkOf(p))

\* the stream the chunk of the step came on holds, with the chunk, a line
\* of errorRegex or, on stdout, the interfaces prompt
FailsWithoutSkip(p) ==
    IF det'[p].serverErr # det[p].serverErr
    THEN Test(errorRegex, det'[p].serverErr)
    ELSE Test(errorRegex, det'[p].serverOut)
            \/ Test(MultipleInterfacesRe, det'[p].serverOut)

RECURSIVE LastMatch(_, _, _)
\* index of the last line of s at or before i that is in the set m, 0 if none
LastMatch(s, m, i) ==
    IF i = 0 THEN 0
    ELSE IF s[i] \in m THEN i
    ELSE LastMatch(s, m, i - 1)

\* the process of call p exits in this step
ExitsNow(p) == proc[p] = "running" /\ proc'[p] = "exited"

\* C13: when the process exits before AppReady the operation ends
\* rejected; if the captured error output holds a fatal line, the rejection
\* carries the most recent one, or the invalid-address guidance in its place
\* when that line reports an unresolvable address.
C13_ExitMessage ==
    [][\A p \in Procs :
          (ExitsNow(p) /\ ~det[p].appReady)
             => LET captured == det[p].serverErr
                    i == LastMatch(captured, errorRegex, Len(captured))
                IN /\ det'[p].promise.state = "rejected"
                   /\ i # 0 =>
                        det'[p].promise.detail =
                           IF IsAddressError(captured[i])
                           THEN <<"InvalidAddress">>
                           ELSE <<captured[i]>>]_vars

\* the "error" event with err.code = code is handled for call p in this
\* step, the promise pending
SpawnFails(p, code) ==
    /\ proc[p] = "failing" /\ proc'[p] = "failed"
    /\ det[p].promise.state = "pending"
    /\ det'[p] = errorHandler(det[p], code)

\* C14: a spawn error with code ENOENT rejects the operation with the
\* "Ionic not found" error, any other spawn error rejects it with the error
\* itself, and neither is a tool-reported error or a timeout.
C14_SpawnError ==
    [][\A p \in Procs, code \in {"ENOENT", "EACCES"} :
          SpawnFails(p, code)
             => /\ det'[p].promise.state = "rejected"
                /\ det'[p].promise.kind \notin {"tool", "timeout"}
                /\ IF code = "ENOENT"
                   THEN det'[p].promise.kind = "IonicNotFound"
                   ELSE /\ det'[p].promise.kind = "spawn"
                        /\ det'[p].promise.detail = <<code>>]_vars

C14_Witness ==
    \E p \in Procs :
        /\ proc[p] = "failed"
        /\ det[p].promise.state = "rejected"
        /\ det[p].promise.kind = "IonicNotFound"

\* the numbered address lines of the output s, in order
AddressLines(s) == SelectSeq(s, LAMBDA l : l \in addressRegex)

\* the output s holds the interfaces prompt and, after it, a numbered
\* address line
PromptThenAddress(s) ==
    \E i, j \in 1 .. Len(s) :
        i < j /\ s[i] \in MultipleInterfacesRe /\ s[j] \in addressRegex

\* C15: when the output holds "Multiple network interfaces detected"
\* followed by numbered address lines and the operation has not resolved, it
\* is rejected, and the interfaces rejection lists every numbered address line
\* of the output, in order and verbatim.
C15_AddressList ==
    \A p \in Started :
        LET d == det[p] IN
        (PromptThenAddress(d.serverOut) /\ d.promise.state # "resolved")
           => /\ d.promise.state = "rejected"
              /\ d.promise.kind = "multi"
                    => d.promise.detail = AddressLines(d.serverOut)

\* the output s holds a message of the simulator, of the device, of the
\* generic app-ready pattern
HasBuildSucceeded(s) == \E i \in 1 .. Len(s) : s[i] = BuildLine

HasDeviceLaunch(s) ==
    \/ \E i \in 1 .. Len(s) : s[i] = BundleLine
    \/ \E i \in 1 .. Len(s) - 1 : s[i] = LldbRunLine /\ s[i + 1] = SuccessLine

HasLaunchSuccess(s) == \E i \in 1 .. Len(s) : s[i] = LaunchLine

\* the command line names a simulator, a device
ForSimulator(cliArgs) == {"ios", "emulate"} \subseteq ArgsOf(cliArgs)

ForDevice(cliArgs) == {"ios", "--device"} \subseteq ArgsOf(cliArgs)

\* the app-ready pattern of a command line: the device's when it names a
\* device, else the simulator's when it names a simulator, else the generic
AppPatternSeen(cliArgs, s) ==
    IF ForDevice(cliArgs) THEN HasDeviceLaunch(s)
    ELSE IF ForSimulator(cliArgs) THEN HasBuildSucceeded(s)
    ELSE HasLaunchSuccess(s)

\* C16: for a serve command line AppReady is granted in the step that
\* enters ServerReady, with no app-ready pattern, and a pending operation
\* resolves in it; for every other command line AppReady is not granted until
\* the app-ready pattern is in the output.
C16_ServeOnly ==
    [][\A p \in Procs :
          LET d == det[p]
              e == det'[p]
          IN /\ (d.cliArgs = "serve" /\ ~d.serverReady /\ e.serverReady)
                   => /\ e.appReady
                      /\ d.promise.state = "pending" => e.promise.state = "resolved"
             /\ (d.cliArgs # "serve" /\ e.appReady)
                   => AppPatternSeen(e.cliArgs, e.serverOut)]_vars

C16_Witness ==
    \E p \in Started :
        /\ det[p].cliArgs = "serve"
        /\ det[p].serverOut = <<UrlLine>>
        /\ det[p].appReady
        /\ det[p].promise.state = "resolved"

\* AppReady is granted to call p exactly when ServerReady is entered and
\* the output has the message
GrantedOn(d, seen) == d.appReady <=> (d.serverReady /\ seen)

\* C17 as stated: a command line with "ios" and "emulate" waits for
\* "build succeeded", one with "ios" and "--device" for the device messages,
\* every other one for "launch success" or "run successful", and nothing else
\* grants AppReady.
C17_AsStated ==
    \A p \in Started :
        LET d == det[p] IN
        d.cliArgs # "serve"
           => /\ ForSimulator(d.cliArgs) => GrantedOn(d, HasBuildSucceeded(d.serverOut))
              /\ ForDevice(d.cliArgs) => GrantedOn(d, HasDeviceLaunch(d.serverOut))
              /\ (~ForSimulator(d.cliArgs) /\ ~ForDevice(d.cliArgs))
                    => GrantedOn(d, HasLaunchSuccess(d.serverOut))

\* C17, amended: a command line with "ios" and "--device" waits for the
\* device messages, also when it has "emulate"; one with "ios" and "emulate"
\* and no "--device" waits for "build succeeded"; every other one waits for
\* "launch success" or "run successful"; nothing else grants AppReady.
C17_AppPattern ==
    \A p \in Started :
        LET d == det[p] IN
        d.cliArgs # "serve" => GrantedOn(d, AppPatternSeen(d.cliArgs, d.serverOut))

C17_Witness ==
    \E p \in Started :
        /\ det[p].cliArgs = "iosDevice"
        /\ det[p].serverOut = <<UrlLine, LldbRunLine, SuccessLine>>
        /\ det[p].appReady
        /\ det[p].promise.state = "resolved"

\* C18: no error message of a failed launchRequest or attachRequest is
\* written for the user, and no error response is sent, before the cleanUp the
\* request calls has finished.
C18_CleanUpBeforeError ==
    \A r \in {"launch", "attach"} :
        (ses.errLogged[r] \/ ses.resp[r] = "error") => ses.pc[r] = "done"

\* C19: a launchRequest or attachRequest that fails with an error named
\* "tokenCanceled" sends no error response and writes no error output.
C19_CancelSilent ==
    \A r \in {"launch", "attach"} :
        ses.err[r] = "tokenCanceled"
           => ses.resp[r] # "error" /\ ~ses.errLogged[r]

\* C20: once cleanUp has terminated the session, the status is not set to
\* Activated, no platform object is created and no proxy server is created.
C20_TerminatedAbsorbing ==
    [][ses.terminateCalls >= 1
          => /\ ses'.status = "Activated" => ses.status = "Activated"
             /\ ses'.nPlatforms = ses.nPlatforms
             /\ ses'.proxyState = "creating" => ses.proxyState = "creating"]_vars

\* ------------------------------------------------------------------------
\* Properties of platform resolution
\* ------------------------------------------------------------------------

BrowserClass == {"BrowserPlatform", "BrowserCordovaPlatform"}

Resolvers == {"resolvePlatform", "resolveCordovaPlatform"}

\* C21: a request whose target is a simulate target is mapped to the
\* browser-class platform for every platform name, known or not, by both
\* resolvers.
C21_SimulateIsBrowser ==
    (call.fn \in Resolvers /\ isSimulateTarget(call.target))
        => call.out.platform \in BrowserClass

\* ------------------------------------------------------------------------
\* Properties of target selection
\* ------------------------------------------------------------------------

TargetResolvers == {"resolveAndroidTarget", "resolveAndSaveMobileTarget"}

\* C22: the resolved target is written to the launch configuration only
\* when the request named a generic class and more than one candidate of
\* the class of the resolved target existed; otherwise nothing is written.
C22_SavedOnlyIfAmbiguous ==
    (call.fn \in TargetResolvers /\ call.res.saved # <<>>)
        => /\ isAnyTarget(call.target)
           /\ CountOf(call.targets, call.res.out.isVirtualTarget) > 1

\* the list selectTarget chooses from
Candidates == getTargetList(call.targets, call.filter)

\* C27: selectTarget returns the only candidate without the chooser, asks
\* the chooser exactly once with the labels in list order when there is
\* more than one candidate, and returns nothing, without the chooser, when
\* there is none.
C27_SelectTarget ==
    call.fn = "selectTarget" =>
        /\ Len(Candidates) = 1 =>
               call.res = [out |-> Candidates[1], chooser |-> <<>>]
        /\ Len(Candidates) > 1 =>
               call.res.chooser =
                   <<[i \in 1..Len(Candidates) |->
                         IF Candidates[i].name # "undefined"
                         THEN Candidates[i].name ELSE Candidates[i].id]>>
        /\ Len(Candidates) = 0 =>
               call.res = [out |-> NoTarget, chooser |-> <<>>]

\* the list [A offline, B, C] with the filter of the online targets: the
\* chooser is asked with [B, C]
C27_Witness ==
    /\ call.fn = "selectTarget"
    /\ call.targets = <<Emu2, Dev1, Dev2>>
    /\ call.filter = ClassFilter(FALSE, "any", TRUE)
    /\ call.res.chooser = << <<"SM_G960", "ZX1G">> >>
    /\ call.res.out = Dev2

\* ------------------------------------------------------------------------
\* Properties of prepareForAttach
\* ------------------------------------------------------------------------

\* the value of line i of the table in the column the header calls k
Column(table, i, k) ==
    LET c == CHOOSE j \in DOMAIN table.keys : table.keys[j] = k
    IN IF c \in DOMAIN table.rows[i] THEN table.rows[i][c] ELSE <<>>

\* line i is an unconnected listening socket of the app
Listening(table, i, pid) ==
    /\ Len(table.rows[i]) >= 8
    /\ Column(table, i, "Flags") = <<"00010000">>
    /\ Column(table, i, "St") = <<"01">>
    /\ Column(table, i, "Path") \in
           {<<"@", "webview_devtools_remote_">> \o pid,
            <<"@", "com.app", "_devtools_remote">>}

\* C24: socket discovery returns the path, without its '@', of the first
\* line in table order with Flags 00010000, St 01 and a path equal to
\* @webview_devtools_remote_<pid> or @<packageId>_devtools_remote; a line
\* with other flags or state or with fewer than 8 fields is never
\* returned, and without such a line there is no result.
C24_SocketLookup ==
    call.fn = "findAbstractName" =>
        LET t == call.table
            hits == {i \in DOMAIN t.rows : Listening(t, i, call.pid)}
        IN IF hits = {}
           THEN call.out = Undefined
           ELSE \E i \in hits :
                   /\ \A j \in hits : i <= j
                   /\ call.out = Tail(Column(t, i, "Path"))

\* a connected socket (St 02) of pid 1234 ahead of the crosswalk socket and
\* of the listening webview socket: the crosswalk name is returned
C24_Witness ==
    /\ call.fn = "findAbstractName"
    /\ call.pid = Pid1
    /\ call.table.keys = SocketKeys
    /\ call.table.rows =
           <<SocketRow("00010000", "02", WebviewPath(Pid1)),
             SocketRow("00010000", "01", CrosswalkPath),
             SocketRow("00010000", "01", WebviewPath(Pid1))>>
    /\ call.out = <<"com.app", "_devtools_remote">>

\* no command of the run is outstanding and no continuation is waiting
AttachQuiet ==
    /\ att.devices \notin {"none", "running"}
    /\ ~att.resolving
    /\ att.pkg.state # "pending"
    /\ att.pc \in {"preparing", "done"}

\* C23: when `adb devices` fails with code ENOENT, prepareForAttach rejects
\* with the 'Unable to find adb' error.
C23_AdbNotFound ==
    (att.devices = "ENOENT" /\ AttachQuiet)
        => att.outcome = Settled("rejected", UnableToFindAdb)

\* the retries of prepareForAttach ended and no attempt found a socket name
NoSocketFound ==
    /\ att.pc = "done"
    /\ att.attempts >= 1
    /\ att.abstractName = Undefined

\* C25: when no attempt of the pid and socket lookup yields a socket name
\* (and the session is not cancelled meanwhile), prepareForAttach makes
\* exactly 5 attempts, each separated from the next by the delay of 5000
\* ms, and rejects with "Unable to find 'localabstract' name"; there is
\* never a sixth attempt, and the forward command is not issued.
C25_RetryExhaustion ==
    /\ att.attempts <= 5
    /\ att.pc = "delay" => (att.delays = att.attempts /\ att.timer = 5000)
    /\ att.pc \in {"pidof", "ps", "sockets"} =>
           att.delays = att.attempts - 1
    /\ att.abstractName = Undefined => att.forwardCalls = 0
    /\ NoSocketFound =>
           \/ att.cancelled /\ att.outcome = Settled("rejected", "tokenCanceled")
           \/ /\ att.attempts = 5
              /\ att.delays = 4
              /\ att.outcome =
                     Settled("rejected",
                        "Unable to find 'localabstract' name of Cordova app")

C25_Witness ==
    /\ NoSocketFound
    /\ ~att.cancelled
    /\ att.attempts = 5
    /\ att.delays = 4
    /\ att.outcome.state = "rejected"

\* C26: the forward command is issued at most once and only after a socket
\* name was found; if it fails, prepareForAttach rejects without another
\* attempt and adbPortForwardingInfo stays unset; if it succeeds,
\* adbPortForwardingInfo is {targetDevice, port} of this attach.
C26_Forward ==
    /\ att.forwardCalls <= 1
    /\ att.forward = "none" <=> att.forwardCalls = 0
    /\ att.forwardCalls = 1 => att.abstractName # Undefined
    /\ att.forward = "failed" =>
           /\ att.pc = "done"
           /\ att.outcome = Settled("rejected", "forward failed")
           /\ att.adbPortForwardingInfo = NoInfo
    /\ att.forward = "ok" =>
           /\ att.outcome.state = "resolved"
           /\ att.adbPortForwardingInfo =
                  [targetDevice |-> att.tgt.value, port |-> att.port]
    /\ att.forward # "ok" =>
           (att.adbPortForwardingInfo = NoInfo /\ att.outcome.state # "resolved")

\* the forward command fails after the second attempt found the name
C26_Witness ==
    /\ att.forward = "failed"
    /\ att.attempts = 2
    /\ att.abstractName = <<"com.app", "_devtools_remote">>
    /\ att.outcome = Settled("rejected", "forward failed")

\* C29: when the pidof command itself fails, the attempt fails with the
\* error or queries the process listing; the socket lookup is not started
\* as if pidof had given no pid.
C29_PidofErrorSurfaced ==
    att.pidof = "error" => att.pc # "sockets"

\* the pid that the process listing gives: the value in the column the
\* header calls PID of the first line whose NAME column is the package
PidOfListing(table) ==
    LET col(k) == CHOOSE j \in DOMAIN table.keys : table.keys[j] = k
        row(i) == SelectSeq(table.rows[i], LAMBDA f : f # <<>>)
        hits == {i \in DOMAIN table.rows :
                    /\ col("NAME") \in DOMAIN row(i)
                    /\ row(i)[col("NAME")] = <<"com.app">>}
    IN IF hits = {} THEN <<"undefined">>
       ELSE row(CHOOSE i \in hits : \A j \in hits : i <= j)[col("PID")]

\* the output of pidof is a number, white space at its ends aside
Numeric(out) ==
    \E n \in {"1234", "4321"} :
        out \in {<<n>>, <<n, "\n">>}

\* C30: when pidof prints something that is not a number, the process
\* listing is queried and the pid is the PID column, found through the
\* header, of the first line whose NAME column is the package id; when
\* pidof prints a number, the process listing is not queried and that
\* number is the pid.
C30_PidDiscovery ==
    /\ att.psCalls <= 1
    /\ (att.pidof = "ok" /\ Numeric(att.pidofOut)) =>
           /\ att.psCalls = 0
           /\ att.pc = "sockets"
           /\ att.pid = <<att.pidofOut[1]>>
    /\ (att.pidof = "ok" /\ ~Numeric(att.pidofOut)) =>
           /\ att.psCalls = 1
           /\ att.pc \in {"ps", "sockets"}
           /\ att.pc = "sockets" => att.pid = PidOfListing(att.psTable)

\* pidof prints two pids; the listing under the header with PID first has
\* another app ahead of the package
C30_Witness ==
    /\ att.pc = "sockets"
    /\ att.pidofOut = <<"1234", " ", "4321", "\n">>
    /\ att.psTable = [keys |-> PsKeysAlt,
                      rows |-> <<PsRow(<<"u0_a3">>, Pid2, <<"com.other">>),
                                 PsRow(Pid2, <<"u0_a2">>, AppPackageName)>>]
    /\ att.pid = Pid2

\* ------------------------------------------------------------------------
\* Properties of the direct launch
\* ------------------------------------------------------------------------

\* the output holds a line with ERROR in capitals
HasUpperError(out) ==
    \E i \in DOMAIN out :
        out[i] \in {"ERROR running app", "ERROR: Failed to launch"}

\* the output holds a line with error: in any case
HasErrorColon(out) ==
    \E i \in DOMAIN out :
        out[i] \in {"ERROR: Failed to launch", "Error: device offline",
                    "error: no devices"}

\* C28: the direct launch whose command ended with output fails with
\* 'Error running android' whenever stdout holds an ERROR line or stderr
\* holds an error: line, and logs 'App successfully launched' only when
\* neither is there.
C28_DirectLaunch ==
    (call.fn = "launchApp" /\ call.ran) =>
        IF HasUpperError(call.runOutput) \/ HasErrorColon(call.stderr)
        THEN call.res = [state |-> "rejected",
                         value |-> "Error running android", log |-> <<>>]
        ELSE /\ call.res.state = "resolved"
             /\ call.res.log = <<"App successfully launched">>

\* the command ended with a clean stdout and an error: line on stderr
C28_Witness ==
    /\ call.fn = "launchApp"
    /\ call.ran
    /\ call.runOutput = <<"LAUNCH SUCCESS">>
    /\ call.stderr = <<"Error: device offline">>
    /\ call.res.state = "rejected"
    /\ call.res.log = <<>>

\* C31: the second manifest location is read if and only if the read of
\* the first failed with ENOENT; any other error of the first read, and
\* any error of the second, rejects prepareForAttach.
C31_Manifest ==
    /\ att.pkgReads <= 2
    /\ att.pkgReads = 2 <=> (att.reads # <<>> /\ att.reads[1] = "ENOENT")
    /\ (att.reads # <<>> /\ att.reads[1] \notin {"ok", "ENOENT"}) =>
           (att.pkg.state = "rejected" /\ att.outcome.state = "rejected")
    /\ (Len(att.reads) = 2 /\ att.reads[2] # "ok") =>
           (att.pkg.state = "rejected" /\ att.outcome.state = "rejected")
    /\ (att.reads # <<>> /\ att.reads[Len(att.reads)] = "ok") =>
           att.pkg = [state |-> "resolved", value |-> <<"com.app">>]

\* the first location is missing, the read of the second fails
C31_Witness ==
    /\ att.reads = <<"ENOENT", "EIO">>
    /\ att.outcome = [state |-> "rejected", value |-> "EIO"]

\* the positions of the online targets of the list of the call
OnlineAt == {i \in DOMAIN call.targets : call.targets[i].isOnline}

\* C32: without an explicit target resolveAndroidTarget returns the first
\* online target in the order of the list and sets configArgs.target to
\* its id; with no online target it fails with the 'no online debuggable
\* targets' error.
C32_FirstOnline ==
    (call.fn = "resolveAndroidTarget" /\ call.target = "undefined") =>
        IF OnlineAt = {}
        THEN /\ call.res.error = "no online debuggable targets"
             /\ call.res.out = NoTarget
        ELSE \E i \in OnlineAt :
                /\ \A j \in OnlineAt : i <= j
                /\ call.res.out = call.targets[i]
                /\ call.res.error = "null"
                /\ call.configTarget = call.targets[i].id

\* an offline emulator ahead of two phones: the first phone is taken
C32_Witness ==
    /\ call.fn = "resolveAndroidTarget"
    /\ call.target = "undefined"
    /\ call.targets = <<Emu2, Dev2, Dev1>>
    /\ call.res.out = Dev2
    /\ call.configTarget = "ZX1G"

\* C33: in the attach scenario every target that target resolution
\* returns is online, through the filter as through the fallback to the
\* first online target.
C33_AttachOnline ==
    (call.fn \in TargetResolvers /\ call.attach /\ call.res.out # NoTarget)
        => call.res.out.isOnline

\* the chooser is dismissed over two phones, with an offline emulator
\* ahead of them in the list: the fallback returns the first phone
C33_Witness ==
    /\ call.fn = "resolveAndroidTarget"
    /\ call.attach
    /\ call.target = "device"
    /\ call.targets = <<Emu2, Dev1, Dev3>>
    /\ call.pick = "undefined"
    /\ call.res.chooser = << <<"SM_G960", "SM_G960">> >>
    /\ call.res.out = Dev1

\* C39: a request for a target class is honoured by resolveAndroidTarget:
\* a target returned for 'emulator' is virtual and one returned for
\* 'device' is physical, in launch and in attach, the attach fallback to
\* the first online target included.
C39_ClassHonoured ==
    (/\ call.fn = "resolveAndroidTarget"
     /\ call.target \in {"emulator", "device"}
     /\ call.res.out # NoTarget)
        => call.res.out.isVirtualTarget = (call.target = "emulator")

\* C37: when the chooser is cancelled selectTarget returns no target,
\* whatever the candidates are, a target without a name included.
C37_ChooserCancelled ==
    (/\ call.fn = "selectTarget"
     /\ call.res.chooser # <<>>
     /\ call.pick = "undefined")
        => call.res.out = NoTarget

\* C38: when the chooser returns the label shown at position i,
\* selectTarget returns the candidate at position i of the filtered list,
\* also when two candidates share a name or the id of one is the name of
\* another.
C38_ChosenPosition ==
    (call.fn = "selectTarget" /\ call.res.chooser # <<>>) =>
        \A i \in DOMAIN Candidates :
            call.res.chooser[1][i] = call.pick
                => call.res.out = Candidates[i]


\* ------------------------------------------------------------------------
\* Suppression of the port-search message
\* ------------------------------------------------------------------------

\* the lines of errorRegex that are not the port-search message
GenuineErrors == errorRegex \ skipErrorRe

\* the stream the chunk of the step came on, with the chunk
StreamOf(p) ==
    IF det'[p].serverErr # det[p].serverErr THEN det'[p].serverErr
    ELSE det'[p].serverOut

\* C34: with a tool version of 4.0.0 or above, a chunk with a genuine
\* "error:" line, handled while the operation is pending on a stream that
\* also holds "utils-network error while checking" (earlier or in the same
\* chunk), makes startIonicDevServer fail with that line.
C34_SuppressionLimited ==
    [][\A p \in Procs :
          (/\ p \in Started
           /\ det[p].isIonic4
           /\ det[p].promise.state = "pending"
           /\ Test(GenuineErrors, ChunkOf(p))
           /\ Test(skipErrorRe, StreamOf(p)))
             => det'[p].promise = RejectedWith(Exec(GenuineErrors, ChunkOf(p)))]_vars


\* ------------------------------------------------------------------------
\* Termination of prepareForAttach
\* ------------------------------------------------------------------------

\* C35: when every bridge command, manifest read and chooser call
\* completes, a call of prepareForAttach eventually settles; a failure of
\* `adb devices` leads to rejection.
C35_Settles == (att.pc # "none") ~> (att.outcome.state # "pending")


\* ------------------------------------------------------------------------
\* Responses of launchRequest and attachRequest
\* ------------------------------------------------------------------------

\* the handler of request r has been entered
Entered(r) == ses.pc[r] \notin {"idle", "requested"}

\* C36: every launchRequest and attachRequest that does not fail with a
\* cancellation error eventually sends its response, success or error, also
\* when a step of cleanUp fails.
C36_Responds ==
    \A r \in {"launch", "attach"} :
        Entered(r) ~> (ses.resp[r] # "none" \/ ses.err[r] = "tokenCanceled")


\* ------------------------------------------------------------------------
\* IOSCordovaPlatform.launchApp: the simulator check
\* ------------------------------------------------------------------------

\* the names of the simulators in the output of `emulate ios --list`
Listed(output) ==
    {e.text : e \in {emulatorsOf(output)[i] : i \in DOMAIN output} \
                        {[null |-> TRUE, text |-> <<>>]}}

\* the `emulate ios` build command was issued
BuildIssued ==
    \E i \in DOMAIN call.commands :
        /\ call.commands[i] # ListCommand
        /\ SubSeq(call.commands[i], 1, 2) = <<"emulate", "ios">>

\* C40: launchApp with a non-device target issues the `emulate ios` build
\* command only when the target is among the simulators that
\* `emulate ios --list` reported, and rejects with the invalid-target error,
\* without the build command, when the target is not among them.
C40_ListedOnly ==
    (call.fn = "iosLaunchApp" /\ call.darwin /\ ~call.isDevice) =>
        /\ BuildIssued => (call.listed /\ call.target \in Listed(call.output))
        /\ (call.listed /\ call.target \notin Listed(call.output)) =>
               (/\ ~BuildIssued
                /\ call.outcome = [state |-> "rejected", value |-> InvalidTarget])

====
